---- MODULE Spec2Model ----
(***************************************************************************)
(* Kokoro TTS Service: the request pipeline of api/api.py.                 *)
(*                                                                         *)
(* One synthesis request is modelled from the moment its JSON body arrives *)
(* at one of the two endpoints (/synthesize-stream, /synthesize-wav): the  *)
(* pydantic validation of the script, the producer task and the consumer   *)
(* generator of the streaming endpoint connected by asyncio.Queue, and the *)
(* sequential loop of the batch endpoint.                                  *)
(*                                                                         *)
(* Encoding of the data:                                                   *)
(*   - a text is a tuple of one-character strings;                         *)
(*   - an Optional value is a tuple of length 0 (None / key absent) or 1;  *)
(*   - a delay is a whole number of milliseconds, a speed a percentage,    *)
(*     a blend weight a whole number of tenths (0..10 is [0.0, 1.0]);      *)
(*   - a voice style vector has EmbDim integer coordinates; a blended      *)
(*     style is kept as numerator vector and denominator (exact rational). *)
(***************************************************************************)
EXTENDS Integers, Sequences, FiniteSets, TLC

\* ------------------------------------------------------------------ bounds
MaxLines == 2        \* longest script drawn from the line pool
NSentLong == 22      \* sentences of the long line (more than the queue holds)
MaxComponents == 2   \* longest blend drawn for single-line requests
MaxShortLines == 3   \* longest script drawn from the pool of short lines
EmbDim == 2          \* coordinates of a style vector kept by the model
MaxBlendLen == 3     \* longest blend whose orderings are compared

\* ------------------------------------------------------- program constants
SAMPLE_RATE == 24000
QueueMaxSize == 20

\* -------------------------------------------------------------- the backend
\* kokoro.get_voices(): the names the loaded voices file knows
KnownVoices == {"af_sky", "am_adam"}

\* kokoro.get_voice_style(name): the style vector of a known voice
VoiceStyle(name) ==
    IF name = "af_sky" THEN [d \in 1..EmbDim |-> IF d = 1 THEN 4 ELSE 2]
    ELSE [d \in 1..EmbDim |-> IF d = 1 THEN -2 ELSE 6]

ZeroStyle == [d \in 1..EmbDim |-> 0]

\* ------------------------------------------------------------ text helpers
IsTerm(c) == c \in {".", "?", "!"}
IsSpace(c) == c = " "

StripLeftOnly(s) ==
    LET inked == { k \in 1..Len(s) : ~IsSpace(s[k]) } IN
    IF inked = {} THEN <<>>
    ELSE SubSeq(s, CHOOSE k \in inked : \A j \in inked : k <= j, Len(s))

\* str.strip(): what lies between the first and the last non-space character
Strip(s) ==
    LET inked == { k \in 1..Len(s) : ~IsSpace(s[k]) } IN
    IF inked = {} THEN <<>>
    ELSE SubSeq(s, CHOOSE k \in inked : \A j \in inked : k <= j,
                   CHOOSE k \in inked : \A j \in inked : k >= j)

\* re.split(r'(?<=[.?!])\s*', text): a match starts right after a terminator
\* and swallows the whitespace that follows it; the piece after the last
\* match is returned too, also when it is empty.
RECURSIVE SplitFrom(_, _, _, _)
SplitFrom(text, i, cur, skipping) ==
    IF i > Len(text) THEN <<cur>>
    ELSE IF skipping /\ IsSpace(text[i]) THEN SplitFrom(text, i + 1, cur, TRUE)
    ELSE IF IsTerm(text[i])
         THEN <<Append(cur, text[i])>> \o SplitFrom(text, i + 1, <<>>, TRUE)
         ELSE SplitFrom(text, i + 1, Append(cur, text[i]), FALSE)

ReSplit(text) == SplitFrom(text, 1, <<>>, FALSE)

\* [s.strip() for s in sentences if s.strip()]
StripAndDropEmpty(pieces) ==
    SelectSeq([k \in 1..Len(pieces) |-> Strip(pieces[k])], LAMBDA p : p # <<>>)

\* the segmenter of the streaming path
Sentences(text) == StripAndDropEmpty(ReSplit(text))

\* tokenizer.phonemize(text): symbols outside the phoneme vocabulary ("~")
\* give no phoneme; the result is stripped and may be empty
DropUnvoiced(s) == SelectSeq(s, LAMBDA c : c # "~")

Phonemize(text) == Strip(DropUnvoiced(text))

\* kokoro.create(phonemes, voice, speed): number of samples returned
CreateSamples(phonemes, speed) == (Len(phonemes) * 600 * 100) \div speed

\* ---------------------------------------------------------------- lines
None == <<>>
Some(v) == <<v>>

\* bool(values.get('voice')): None (or a missing key) and "" are falsy
TruthyStr(opt) == opt # None /\ opt[1] # ""

\* bool(values.get('blend_components')): None (or a missing key) and [] are falsy
TruthyList(opt) == opt # None /\ opt[1] # <<>>

Xor(a, b) == (a /\ ~b) \/ (~a /\ b)

\* variant of CheckVoiceOrBlend: "or" where the validator has "^"
CheckVoiceOrBlendOr(values) ==
    TruthyStr(values.voice) \/ TruthyList(values.blend_components)

\* DialogueLine.check_voice_or_blend: TRUE when the validator returns the
\* values, FALSE when it raises ValueError
CheckVoiceOrBlend(values) ==
    Xor(TruthyStr(values.voice), TruthyList(values.blend_components))

\* VoiceComponent.weight: Field(..., ge=0.0, le=1.0)
WeightInRange(c) == c.weight >= 0 /\ c.weight <= 10

\* DialogueLine.speed: Field(1.0, ge=0.25, le=2.0)
SpeedInRange(line) == line.speed >= 25 /\ line.speed <= 200

\* the error pydantic reports for one line; the mode='before' validator runs
\* first and the field validators only when it returned
LineError(line) ==
    IF ~CheckVoiceOrBlend(line) THEN "voice_or_blend"
    ELSE IF line.blend_components # None
            /\ \E k \in 1..Len(line.blend_components[1]) :
                   ~WeightInRange(line.blend_components[1][k])
         THEN "weight"
    ELSE IF ~SpeedInRange(line) THEN "speed"
    ELSE "ok"

\* SynthesizeRequest: script: List[DialogueLine]
ScriptErrors(s) == [i \in 1..Len(s) |-> LineError(s[i])]

\* sum(c.weight for c in line.blend_components)
TotalWeight(comps) ==
    LET RECURSIVE S(_)
        S(k) == IF k = 0 THEN 0 ELSE S(k - 1) + comps[k].weight
    IN S(Len(comps))

AddStylesFirstKnownOnly(acc, comps) ==
    LET known == { k \in 1..Len(comps) : comps[k].voice \in KnownVoices } IN
    IF known = {} THEN acc
    ELSE LET k == CHOOSE k \in known : \A j \in known : k <= j IN
         [d \in 1..EmbDim |-> acc[d] + VoiceStyle(comps[k].voice)[d] * comps[k].weight]

\* the loop adding get_voice_style(c.voice) * c.weight for the known voices
AddStyles(acc, comps) ==
    LET RECURSIVE S(_)
        S(k) == IF k = 0 THEN acc
                ELSE IF comps[k].voice \in KnownVoices
                     THEN [d \in 1..EmbDim |->
                              S(k - 1)[d] + VoiceStyle(comps[k].voice)[d] * comps[k].weight]
                     ELSE S(k - 1)
    IN S(Len(comps))

\* final_style of a blend; "if total_weight > 0: final_style /= total_weight"
BlendStyle(comps) ==
    [kind |-> "style", name |-> "",
     num |-> AddStyles(ZeroStyle, comps),
     den |-> IF TotalWeight(comps) > 0 THEN TotalWeight(comps) ELSE 1]

NoTarget == [kind |-> "none", name |-> "", num |-> ZeroStyle, den |-> 1]

\* variant of Resolve: the voice name is passed on without the membership test
ResolveAnyName(line) ==
    IF TruthyList(line.blend_components) THEN BlendStyle(line.blend_components[1])
    ELSE IF TruthyStr(line.voice)
         THEN [kind |-> "name", name |-> line.voice[1], num |-> ZeroStyle, den |-> 1]
    ELSE NoTarget

\* variant of Resolve: a blend none of whose voices is known resolves to nothing
ResolveSkipUnknownBlend(line) ==
    IF TruthyList(line.blend_components)
    THEN IF \E k \in 1..Len(line.blend_components[1]) :
                line.blend_components[1][k].voice \in KnownVoices
         THEN BlendStyle(line.blend_components[1])
         ELSE NoTarget
    ELSE IF TruthyStr(line.voice) /\ line.voice[1] \in KnownVoices
         THEN [kind |-> "name", name |-> line.voice[1], num |-> ZeroStyle, den |-> 1]
    ELSE NoTarget

\* voice_or_style of a line (NoTarget is Python's None)
Resolve(line) ==
    IF TruthyList(line.blend_components) THEN BlendStyle(line.blend_components[1])
    ELSE IF TruthyStr(line.voice) /\ line.voice[1] \in KnownVoices
         THEN [kind |-> "name", name |-> line.voice[1], num |-> ZeroStyle, den |-> 1]
    ELSE NoTarget

\* "line.delay and line.delay > 0"
HasDelay(line) == line.delay # None /\ line.delay[1] > 0

\* int(line.delay * SAMPLE_RATE), the delay being in milliseconds here
SilenceSamples(line) == (line.delay[1] * SAMPLE_RATE) \div 1000

\* ---------------------------------------------------------------- units
SilenceUnit(i, line) ==
    [kind |-> "silence", line |-> i, sent |-> 0, nsamples |-> SilenceSamples(line)]

ContentUnit(i, k, phonemes, speed) ==
    [kind |-> "content", line |-> i, sent |-> k,
     nsamples |-> CreateSamples(phonemes, speed)]

\* the None the producer puts after the last line
EndMarker == [kind |-> "end", line |-> 0, sent |-> 0, nsamples |-> 0]

\* samples.astype(np.float32).tobytes(): four bytes per sample
ToBytes(unit) ==
    [kind |-> unit.kind, line |-> unit.line, sent |-> unit.sent,
     nbytes |-> 4 * unit.nsamples]

\* variant of CanPut: a queue made without maxsize, put() never waits
CanPutUnbounded(queue) == TRUE

\* asyncio.Queue(maxsize=20): put() completes only while the queue is not full
CanPut(queue) == Len(queue) < QueueMaxSize

\* ------------------------------------------------------- the request inputs
RECURSIVE Repeat(_, _)
Repeat(s, n) == IF n = 0 THEN <<>> ELSE s \o Repeat(s, n - 1)

THi == <<"a", ".", " ", "b", "?">>
TOne == <<"a", ".">>
TMute == <<"~">>
TLong == Repeat(<<"a", ".">>, NSentLong)

\* the texts a request line can carry, and the segmentation of each of them
\* (the value of Sentences, computed once per text)
Texts == {THi, TOne, TMute, TLong}

SentencesOf == [t \in Texts |-> Sentences(t)]

Line(text, voice, blend, delay) ==
    [text |-> text, voice |-> voice, blend_components |-> blend,
     delay |-> delay, speed |-> 100]

Comp(voice, weight) == [voice |-> voice, weight |-> weight]

\* the lines multi-line scripts are made of
LinePool ==
    { Line(THi, Some("af_sky"), None, Some(0)),
      Line(TOne, Some("zz_nobody"), None, Some(200)),
      Line(TOne, None, Some(<<Comp("zz_nobody", 5), Comp("yy_nobody", 5)>>), Some(200)),
      Line(TLong, None, Some(<<Comp("am_adam", 5), Comp("zz_nobody", 5)>>), Some(200)),
      Line(TMute, Some("am_adam"), None, Some(200)),
      Line(TOne, Some("af_sky"), Some(<<Comp("am_adam", 10)>>), None) }

SeqsUpTo(S, n) == UNION { [1..k -> S] : k \in 0..n }

Scripts == SeqsUpTo(LinePool, MaxLines)

\* short lines for scripts of up to MaxShortLines lines: two known voices, an
\* unknown voice, a blend of unknown voices, a text without phonemes, and a
\* line that sets both voice and blend_components
ShortPool ==
    { Line(THi, Some("af_sky"), None, Some(0)),
      Line(TOne, Some("am_adam"), None, Some(200)),
      Line(TOne, Some("zz_nobody"), None, Some(200)),
      Line(TOne, None, Some(<<Comp("zz_nobody", 5)>>), Some(200)),
      Line(TMute, Some("am_adam"), None, Some(200)),
      Line(TOne, Some("af_sky"), Some(<<Comp("am_adam", 10)>>), None) }

ShortScripts == SeqsUpTo(ShortPool, MaxShortLines)

\* the lines of single-line requests: every combination of absent, empty,
\* known and unknown voice with absent, empty and non-empty blend
VoiceValues == {None, Some(""), Some("af_sky"), Some("zz_nobody")}
Components == { Comp(v, w) : v \in {"af_sky", "am_adam", "zz_nobody"}, w \in {0, 5, 10} }
BlendValues ==
    {None} \cup { Some(b) : b \in SeqsUpTo(Components, MaxComponents) }
           \cup { Some(<<Comp("af_sky", 15)>>) }
DelayValues == {None, Some(0), Some(200)}

SingleLines ==
    { Line(THi, v, b, d) : v \in VoiceValues, b \in BlendValues, d \in DelayValues }
      \cup { [Line(TMute, Some("af_sky"), None, Some(200)) EXCEPT !.speed = sp] :
                 sp \in {10, 100, 300} }

Endpoints == {"stream", "wav"}

\* ------------------------------------------------------------------ state
VARIABLES
    endpoint,     \* "stream" (/synthesize-stream) or "wav" (/synthesize-wav)
    script,       \* request.script as received
    verrors,      \* per-line validation outcome, set by the validation
    response,     \* "none", "422", "stream", "wav", "empty", "500"
    q,            \* the asyncio.Queue between producer and stream_generator
    pstate,       \* producer(): "idle", "line", "sent", "infer", "put", "done", "failed"
    bstate,       \* generate_full_audio(): "idle", "line", "infer", "done", "failed"
    lineIdx,      \* index of the line the loop is at
    sentIdx,      \* index of the sentence the inner loop is at
    target,       \* voice_or_style of the current line
    pending,      \* the item of the put the producer is at
    enqueued,     \* history: every item put into q, in order
    calls,        \* history: every kokoro.create call issued, in order
    cstate,       \* stream_generator(): "idle", "init", "reading", "done", "gone"
    emitted,      \* history: every chunk yielded by stream_generator
    all_samples,  \* generate_full_audio's list of arrays
    levels,       \* for each array of all_samples, the sample values it holds
    wav_body,     \* the body synthesize_wav answered with
    detail        \* the detail of the HTTP error synthesize_wav raised, if any

\* the state of one synthesis request
reqVars == <<endpoint, script, verrors, response, q, pstate, bstate, lineIdx, sentIdx,
             target, pending, enqueued, calls, cstate, emitted, all_samples,
             levels, wav_body, detail>>

\* what only the batch path writes
batchOut == <<levels, wav_body, detail>>

\* the model registry and the UI that asks it to switch
VARIABLES
    activeSet,    \* the handles the registry holds as active
    resident,     \* the backends that are fully loaded in memory
    loadingId,    \* the model a switch is loading, "none" when no switch runs
    inflight,     \* the handles the running synthesis calls took from the registry
    artifactOk,   \* the models whose artifact is on disk and intact
    uiMessage     \* what set_model told the user: "none", "no_model", "sent", "ok", "error"

regVars == <<activeSet, resident, loadingId, inflight, artifactOk, uiMessage>>

\* a run of the benchmark tool
VARIABLES
    bpc,          \* where the run is: "idle", "download", "load", "infer", "report", "done", "aborted"
    bidx,         \* the asset the run is at: 0 the voices file, i the i-th candidate
    results,      \* the rows appended so far
    recs,         \* what print_recommendations picked
    bresident,    \* the candidate backends that are loaded
    bexit,        \* how the run ended early: "none", "exit1", "exception"
    rss,          \* the memory the process holds now
    mem_before_all, \* the memory reading taken before the loop
    load_rss,     \* the memory the process held just before the current candidate was loaded
    mem_rows      \* for each row, its mem_usage and the readings around it

\* the memory readings of a run
benchMem == <<rss, mem_before_all, load_rss, mem_rows>>

benchVars == <<bpc, bidx, results, recs, bresident, bexit, benchMem>>

\* the memory of the process before anything is loaded
BaseRss == 10

\* a start of the service process
VARIABLES
    spc,          \* where startup is: "check_model", "check_voices", "load", "ready", "exited", "crashed"
    disk,         \* for each asset, the bytes of its file, absent when there is none
    starts,       \* the number of the current start
    dl,           \* the last download: its asset, declared length, bytes written, start
    sloaded,      \* Kokoro(model_path, voices_path) has returned in this start
    tainted       \* the assets whose file was left by a download that failed or was found incomplete

startVars == <<spc, disk, starts, dl, sloaded, tainted>>

\* several streaming requests in flight at once, each a call of synthesize_stream
VARIABLES
    mscript,      \* for each request, its script
    mresp,        \* for each request, its response: "none", "422", "stream"
    mq,           \* for each request, the queue its call of synthesize_stream made
    mpc,          \* for each request, where its producer is
    mpos,         \* for each request, the unit its producer is at
    mcs,          \* for each request, where its stream_generator is
    mout          \* for each request, the chunks its stream delivered

multiVars == <<mscript, mresp, mq, mpc, mpos, mcs, mout>>

\* the segmenter applied to a text
VARIABLES
    stext,        \* the line text
    ssegs         \* the segments returned for it, absent before the call

segVars == <<stext, ssegs>>

\* the command-line client playing a stream
VARIABLES
    crecv,        \* the bytes iter_content has handed over so far
    cbuf,         \* the client's buffer
    cwrites,      \* the arrays written to the audio device, in order
    cend          \* "open", or how the loop was left: "ended" or "error"

clientVars == <<crecv, cbuf, cwrites, cend>>

vars == <<reqVars, regVars, benchVars, startVars, multiVars, segVars, clientVars>>

\* what the steps of a request leave alone
notReq == <<regVars, benchVars, startVars, multiVars, segVars, clientVars>>

\* what the steps of the registry leave alone
notReg == <<reqVars, benchVars, startVars, multiVars, segVars, clientVars>>

\* what the steps of the benchmark leave alone
notBench == <<reqVars, regVars, startVars, multiVars, segVars, clientVars>>

\* what the steps of startup leave alone
notStart == <<reqVars, regVars, benchVars, multiVars, segVars, clientVars>>

\* what the steps of the concurrent requests leave alone
notMulti == <<reqVars, regVars, benchVars, startVars, segVars, clientVars>>

\* what the segmenter leaves alone
notSeg == <<reqVars, regVars, benchVars, startVars, multiVars, clientVars>>

\* what the client leaves alone
notClient == <<reqVars, regVars, benchVars, startVars, multiVars, segVars>>

\* no text is being segmented
SegIdle ==
    /\ stext = <<>>
    /\ ssegs = None

\* no client is playing
ClientIdle ==
    /\ crecv = <<>>
    /\ cbuf = <<>>
    /\ cwrites = <<>>
    /\ cend = "open"

\* the requests that can be in flight together
MaxRequests == 2
Requests == 1..MaxRequests

\* no concurrent requests
MultiIdle ==
    /\ mscript = [r \in Requests |-> <<>>]
    /\ mresp = [r \in Requests |-> "none"]
    /\ mq = [r \in Requests |-> <<>>]
    /\ mpc = [r \in Requests |-> "idle"]
    /\ mpos = [r \in Requests |-> 0]
    /\ mcs = [r \in Requests |-> "idle"]
    /\ mout = [r \in Requests |-> <<>>]

\* the two files the service needs
Assets == {"model", "voices"}

\* the length of a complete asset file, in bytes
FullSize == 2

\* no download was made
NoDownload == [asset |-> "", declared |-> None, written |-> 0, start |-> 0]

\* the service is up on complete files
StartIdle ==
    /\ spc = "ready"
    /\ disk = [a \in Assets |-> Some(FullSize)]
    /\ starts = 1
    /\ dl = NoDownload
    /\ sloaded = TRUE
    /\ tainted = {}

\* no recommendation was printed
NoRecs == [printed |-> FALSE]

\* no benchmark runs
BenchIdle ==
    /\ bpc = "idle"
    /\ bidx = 0
    /\ results = <<>>
    /\ recs = NoRecs
    /\ bresident = {}
    /\ bexit = "none"
    /\ rss = BaseRss
    /\ mem_before_all = 0
    /\ load_rss = 0
    /\ mem_rows = <<>>

\* the model file the service loads at startup
MODEL_FILE == "kokoro-v1.0.fp16.onnx"

\* the models a switch can name
ModelIds == {"kokoro-v1.0.onnx", "kokoro-v1.0.fp16.onnx", "kokoro-v1.0.int8.onnx"}

\* the registry as a request sees it: the startup model, loaded, no switch
RegIdle ==
    /\ activeSet = {MODEL_FILE}
    /\ resident = {MODEL_FILE}
    /\ loadingId = "none"
    /\ inflight = <<>>
    /\ artifactOk = ModelIds
    /\ uiMessage = "none"

\* no request
ReqIdle ==
    /\ endpoint = "stream"
    /\ script = <<>>
    /\ verrors = <<>>
    /\ response = "none"
    /\ q = <<>>
    /\ pstate = "idle"
    /\ bstate = "idle"
    /\ lineIdx = 0
    /\ sentIdx = 0
    /\ target = NoTarget
    /\ pending = EndMarker
    /\ enqueued = <<>>
    /\ calls = <<>>
    /\ cstate = "idle"
    /\ emitted = <<>>
    /\ all_samples = <<>>
    /\ levels = <<>>
    /\ wav_body = <<>>
    /\ detail = None

InitWith(scripts) ==
    /\ endpoint \in Endpoints
    /\ script \in scripts
    /\ verrors = <<>>
    /\ response = "none"
    /\ q = <<>>
    /\ pstate = "idle"
    /\ bstate = "idle"
    /\ lineIdx = 0
    /\ sentIdx = 0
    /\ target = NoTarget
    /\ pending = EndMarker
    /\ enqueued = <<>>
    /\ calls = <<>>
    /\ cstate = "idle"
    /\ emitted = <<>>
    /\ all_samples = <<>>
    /\ levels = <<>>
    /\ wav_body = <<>>
    /\ detail = None
    /\ RegIdle
    /\ BenchIdle
    /\ StartIdle
    /\ MultiIdle
    /\ SegIdle
    /\ ClientIdle

Init == InitWith(Scripts)

\* ------------------------------------------------------- the wav response
\* the sample values a backend call can return, as a short pattern the array
\* repeats: a waveform whose peak is a negative sample, one whose peak is
\* positive, and digital silence
Waves == { <<3, -6>>, <<2, 1>>, <<0, 0>> }

\* np.zeros(...): every sample is 0
SilenceLevels == <<0>>

Abs(x) == IF x < 0 THEN -x ELSE x

\* the positions of the arrays that hold at least one sample
NonEmptyUnits(units) == { k \in 1..Len(units) : units[k].nsamples > 0 }

\* the sample values array k holds: its pattern, cut to the array's length
ValuesOf(units, lv, k) ==
    { lv[k][j] : j \in { j \in 1..Len(lv[k]) : j <= units[k].nsamples } }

\* every sample value of np.concatenate(all_samples)
BufferValues(units, lv) == UNION { ValuesOf(units, lv, k) : k \in NonEmptyUnits(units) }

PeakSigned(units, lv) ==
    CHOOSE m \in BufferValues(units, lv) : \A v \in BufferValues(units, lv) : v <= m

\* np.max(np.abs(full_audio))
Peak(units, lv) ==
    CHOOSE m \in { Abs(v) : v \in BufferValues(units, lv) } :
        \A v \in BufferValues(units, lv) : Abs(v) <= m

\* write_wav of the buffer after `if max_val > 0: full_audio /= max_val`: the
\* sample rate, and for each array its length and its sample values as
\* quotients num / den
EncodeNormalized(units, lv) ==
    LET max_val == Peak(units, lv)
        den == IF max_val > 0 THEN max_val ELSE 1
    IN  [rate |-> SAMPLE_RATE,
         data |-> [k \in 1..Len(units) |->
                     [nsamples |-> units[k].nsamples, num |-> lv[k], den |-> den]]]

WavResponseEmptyIsError(units, lv) ==
    IF NonEmptyUnits(units) = {}
    THEN [status |-> "500", body |-> <<>>]
    ELSE [status |-> "wav", body |-> <<EncodeNormalized(units, lv)>>]

\* what synthesize_wav answers once generate_full_audio returned: an empty
\* body for a buffer of size 0, the encoded normalized buffer otherwise
WavResponse(units, lv) ==
    IF NonEmptyUnits(units) = {}
    THEN [status |-> "empty", body |-> <<>>]
    ELSE [status |-> "wav", body |-> <<EncodeNormalized(units, lv)>>]

\* ---------------------------------------------------------------- actions
\* variant of Validate: only the first line of the script is validated
ValidateFirstLineOnly ==
    /\ response = "none" /\ pstate = "idle" /\ bstate = "idle" /\ cstate = "idle"
    /\ verrors' = ScriptErrors(script)
    /\ IF script # <<>> /\ LineError(script[1]) # "ok"
       THEN /\ response' = "422"
            /\ UNCHANGED <<cstate, bstate, lineIdx>>
       ELSE IF endpoint = "stream"
            THEN /\ response' = "stream"
                 /\ cstate' = "init"
                 /\ UNCHANGED <<bstate, lineIdx>>
            ELSE /\ bstate' = "line"
                 /\ lineIdx' = 1
                 /\ UNCHANGED <<response, cstate>>
    /\ UNCHANGED <<endpoint, script, q, pstate, sentIdx, target, pending, enqueued,
                   calls, emitted, all_samples>>
    /\ UNCHANGED <<notReq, batchOut>>

\* FastAPI parses the body into SynthesizeRequest before the handler runs;
\* a line that fails gives 422, otherwise the handler starts
Validate ==
    /\ response = "none" /\ pstate = "idle" /\ bstate = "idle" /\ cstate = "idle"
    /\ verrors' = ScriptErrors(script)
    /\ IF \E i \in 1..Len(script) : LineError(script[i]) # "ok"
       THEN /\ response' = "422"
            /\ UNCHANGED <<cstate, bstate, lineIdx>>
       ELSE IF endpoint = "stream"
            THEN /\ response' = "stream"
                 /\ cstate' = "init"
                 /\ UNCHANGED <<bstate, lineIdx>>
            ELSE /\ bstate' = "line"
                 /\ lineIdx' = 1
                 /\ UNCHANGED <<response, cstate>>
    /\ UNCHANGED <<endpoint, script, q, pstate, sentIdx, target, pending, enqueued,
                   calls, emitted, all_samples>>
    /\ UNCHANGED <<notReq, batchOut>>

\* first iteration of stream_generator: asyncio.create_task(producer())
ConsumerStart ==
    /\ cstate = "init"
    /\ cstate' = "reading"
    /\ pstate' = "line"
    /\ lineIdx' = 1
    /\ UNCHANGED <<endpoint, script, verrors, response, q, bstate, sentIdx, target,
                   pending, enqueued, calls, emitted, all_samples>>
    /\ UNCHANGED <<notReq, batchOut>>

\* variant of ProducerLine: the producer returns after the last line without
\* putting None
ProducerLineNoEnd ==
    /\ pstate = "line"
    /\ IF lineIdx > Len(script)
       THEN /\ pstate' = "done"
            /\ UNCHANGED <<lineIdx, sentIdx, target, pending>>
       ELSE LET line == script[lineIdx]
                t == Resolve(line) IN
            IF t.kind = "none"
            THEN /\ lineIdx' = lineIdx + 1
                 /\ UNCHANGED <<pstate, sentIdx, target, pending>>
            ELSE /\ target' = t
                 /\ sentIdx' = 1
                 /\ UNCHANGED lineIdx
                 /\ IF HasDelay(line)
                    THEN /\ pending' = SilenceUnit(lineIdx, line)
                         /\ pstate' = "put"
                    ELSE /\ pstate' = "sent"
                         /\ UNCHANGED pending
    /\ UNCHANGED <<endpoint, script, verrors, response, q, bstate, enqueued, calls,
                   cstate, emitted, all_samples>>
    /\ UNCHANGED <<notReq, batchOut>>

ProducerLineSilenceFirst ==
    /\ pstate = "line"
    /\ IF lineIdx > Len(script)
       THEN /\ pending' = EndMarker
            /\ pstate' = "put"
            /\ UNCHANGED <<lineIdx, sentIdx, target>>
       ELSE LET line == script[lineIdx]
                t == Resolve(line) IN
            IF t.kind = "none" /\ ~HasDelay(line)
            THEN /\ lineIdx' = lineIdx + 1
                 /\ UNCHANGED <<pstate, sentIdx, target, pending>>
            ELSE /\ target' = t
                 /\ sentIdx' = IF t.kind = "none" THEN Len(SentencesOf[line.text]) + 1 ELSE 1
                 /\ UNCHANGED lineIdx
                 /\ IF HasDelay(line)
                    THEN /\ pending' = SilenceUnit(lineIdx, line)
                         /\ pstate' = "put"
                    ELSE /\ pstate' = "sent"
                         /\ UNCHANGED pending
    /\ UNCHANGED <<endpoint, script, verrors, response, q, bstate, enqueued, calls,
                   cstate, emitted, all_samples>>
    /\ UNCHANGED <<notReq, batchOut>>

\* producer, top of "for line in request.script": resolve the voice, skip the
\* line when nothing resolved, go to the put of the silence when it has a delay;
\* after the last line go to "await q.put(None)"
ProducerLine ==
    /\ pstate = "line"
    /\ IF lineIdx > Len(script)
       THEN /\ pending' = EndMarker
            /\ pstate' = "put"
            /\ UNCHANGED <<lineIdx, sentIdx, target>>
       ELSE LET line == script[lineIdx]
                t == Resolve(line) IN
            IF t.kind = "none"
            THEN /\ lineIdx' = lineIdx + 1
                 /\ UNCHANGED <<pstate, sentIdx, target, pending>>
            ELSE /\ target' = t
                 /\ sentIdx' = 1
                 /\ UNCHANGED lineIdx
                 /\ IF HasDelay(line)
                    THEN /\ pending' = SilenceUnit(lineIdx, line)
                         /\ pstate' = "put"
                    ELSE /\ pstate' = "sent"
                         /\ UNCHANGED pending
    /\ UNCHANGED <<endpoint, script, verrors, response, q, bstate, enqueued, calls,
                   cstate, emitted, all_samples>>
    /\ UNCHANGED <<notReq, batchOut>>

\* variant of ProducerPut: the item goes to the front of the queue
ProducerPutFront ==
    /\ pstate = "put"
    /\ CanPut(q)
    /\ q' = <<pending>> \o q
    /\ enqueued' = Append(enqueued, pending)
    /\ pstate' = IF pending.kind = "end" THEN "done" ELSE "sent"
    /\ sentIdx' = IF pending.kind = "content" THEN sentIdx + 1 ELSE sentIdx
    /\ UNCHANGED <<endpoint, script, verrors, response, bstate, lineIdx, target,
                   pending, calls, cstate, emitted, all_samples>>
    /\ UNCHANGED <<notReq, batchOut>>

\* "await q.put(item)": completes when the queue has room, else stays suspended
ProducerPut ==
    /\ pstate = "put"
    /\ CanPut(q)
    /\ q' = Append(q, pending)
    /\ enqueued' = Append(enqueued, pending)
    /\ pstate' = IF pending.kind = "end" THEN "done" ELSE "sent"
    /\ sentIdx' = IF pending.kind = "content" THEN sentIdx + 1 ELSE sentIdx
    /\ UNCHANGED <<endpoint, script, verrors, response, bstate, lineIdx, target,
                   pending, calls, cstate, emitted, all_samples>>
    /\ UNCHANGED <<notReq, batchOut>>

\* producer, top of "for sentence in sentences": phonemize, skip a sentence
\* without phonemes, otherwise issue kokoro.create on a worker thread
ProducerSentence ==
    /\ pstate = "sent"
    /\ LET sentences == SentencesOf[script[lineIdx].text] IN
       IF sentIdx > Len(sentences)
       THEN /\ lineIdx' = lineIdx + 1
            /\ pstate' = "line"
            /\ UNCHANGED <<sentIdx, calls>>
       ELSE LET phonemes == Phonemize(sentences[sentIdx]) IN
            IF phonemes = <<>>
            THEN /\ sentIdx' = sentIdx + 1
                 /\ UNCHANGED <<lineIdx, pstate, calls>>
            ELSE /\ calls' = Append(calls, [line |-> lineIdx, sent |-> sentIdx,
                                            phonemes |-> phonemes, voice |-> target,
                                            speed |-> script[lineIdx].speed])
                 /\ pstate' = "infer"
                 /\ UNCHANGED <<lineIdx, sentIdx>>
    /\ UNCHANGED <<endpoint, script, verrors, response, q, bstate, target, pending,
                   enqueued, cstate, emitted, all_samples>>
    /\ UNCHANGED <<notReq, batchOut>>

\* kokoro.create returned samples: the producer goes to "await q.put(samples)"
ProducerInferOk ==
    /\ pstate = "infer"
    /\ pending' = ContentUnit(lineIdx, sentIdx, calls[Len(calls)].phonemes,
                              script[lineIdx].speed)
    /\ pstate' = "put"
    /\ UNCHANGED <<endpoint, script, verrors, response, q, bstate, lineIdx, sentIdx,
                   target, enqueued, calls, cstate, emitted, all_samples>>
    /\ UNCHANGED <<notReq, batchOut>>

\* kokoro.create raised: the exception ends the producer task, which nobody
\* awaits; nothing is put into the queue
ProducerInferFail ==
    /\ pstate = "infer"
    /\ pstate' = "failed"
    /\ UNCHANGED <<endpoint, script, verrors, response, q, bstate, lineIdx, sentIdx,
                   target, pending, enqueued, calls, cstate, emitted, all_samples>>
    /\ UNCHANGED <<notReq, batchOut>>

\* stream_generator: "samples = await q.get()" returns when the queue holds an
\* item; None ends the generator, anything else is yielded as bytes
ConsumerGet ==
    /\ cstate = "reading"
    /\ q # <<>>
    /\ q' = Tail(q)
    /\ IF Head(q).kind = "end"
       THEN /\ cstate' = "done"
            /\ UNCHANGED emitted
       ELSE /\ emitted' = Append(emitted, ToBytes(Head(q)))
            /\ UNCHANGED cstate
    /\ UNCHANGED <<endpoint, script, verrors, response, pstate, bstate, lineIdx,
                   sentIdx, target, pending, enqueued, calls, all_samples>>
    /\ UNCHANGED <<notReq, batchOut>>

\* the client goes away: the server stops iterating stream_generator (the
\* response task is cancelled); the producer task is not referenced by it
Disconnect ==
    /\ cstate \in {"init", "reading"}
    /\ cstate' = "gone"
    /\ UNCHANGED <<endpoint, script, verrors, response, q, pstate, bstate, lineIdx,
                   sentIdx, target, pending, enqueued, calls, emitted, all_samples>>
    /\ UNCHANGED <<notReq, batchOut>>

\* generate_full_audio, top of "for line in script": resolve, skip, append the
\* silence, phonemize the whole line text and issue kokoro.create; after the
\* last line the concatenation goes back to synthesize_wav, which answers with
\* an empty body when it holds no sample and with the encoded buffer otherwise
BatchLine ==
    /\ bstate = "line"
    /\ IF lineIdx > Len(script)
       THEN /\ bstate' = "done"
            /\ response' = WavResponse(all_samples, levels).status
            /\ wav_body' = WavResponse(all_samples, levels).body
            /\ UNCHANGED <<lineIdx, target, calls, all_samples, levels>>
       ELSE LET line == script[lineIdx]
                t == Resolve(line)
                withSilence == IF HasDelay(line)
                               THEN Append(all_samples, SilenceUnit(lineIdx, line))
                               ELSE all_samples
                phonemes == Phonemize(line.text) IN
            /\ UNCHANGED <<response, wav_body>>
            /\ IF t.kind = "none"
               THEN /\ lineIdx' = lineIdx + 1
                    /\ UNCHANGED <<bstate, target, calls, all_samples, levels>>
               ELSE /\ target' = t
                    /\ all_samples' = withSilence
                    /\ levels' = IF HasDelay(line)
                                 THEN Append(levels, SilenceLevels)
                                 ELSE levels
                    /\ IF phonemes = <<>>
                       THEN /\ lineIdx' = lineIdx + 1
                            /\ UNCHANGED <<bstate, calls>>
                       ELSE /\ calls' = Append(calls, [line |-> lineIdx, sent |-> 0,
                                                       phonemes |-> phonemes,
                                                       voice |-> t,
                                                       speed |-> line.speed])
                            /\ bstate' = "infer"
                            /\ UNCHANGED lineIdx
    /\ UNCHANGED <<endpoint, script, verrors, q, pstate, sentIdx, pending, enqueued,
                   cstate, emitted, detail>>
    /\ UNCHANGED notReq

BatchInferOkPrepend ==
    /\ bstate = "infer"
    /\ \E wave \in Waves :
          /\ all_samples' = <<ContentUnit(lineIdx, 0, calls[Len(calls)].phonemes,
                                          script[lineIdx].speed)>> \o all_samples
          /\ levels' = <<wave>> \o levels
    /\ lineIdx' = lineIdx + 1
    /\ bstate' = "line"
    /\ UNCHANGED <<endpoint, script, verrors, response, q, pstate, sentIdx, target,
                   pending, enqueued, calls, cstate, emitted, wav_body, detail>>
    /\ UNCHANGED notReq

\* kokoro.create returned some waveform: all_samples.append(samples.astype(np.float32))
BatchInferOk ==
    /\ bstate = "infer"
    /\ \E wave \in Waves :
          /\ all_samples' = Append(all_samples,
                                   ContentUnit(lineIdx, 0, calls[Len(calls)].phonemes,
                                               script[lineIdx].speed))
          /\ levels' = Append(levels, wave)
    /\ lineIdx' = lineIdx + 1
    /\ bstate' = "line"
    /\ UNCHANGED <<endpoint, script, verrors, response, q, pstate, sentIdx, target,
                   pending, enqueued, calls, cstate, emitted, wav_body, detail>>
    /\ UNCHANGED notReq

\* what str(e) of a backend exception can be
ErrorTexts == {"", "InvalidArgument: phoneme ids"}

BatchInferFailSkipsLine ==
    /\ bstate = "infer"
    /\ bstate' = "line"
    /\ lineIdx' = lineIdx + 1
    /\ UNCHANGED <<endpoint, script, verrors, response, q, pstate, sentIdx, target,
                   pending, enqueued, calls, cstate, emitted, all_samples, batchOut>>
    /\ UNCHANGED notReq

\* kokoro.create raised: the exception leaves generate_full_audio, and
\* synthesize_wav's except turns it into HTTPException(500, detail=str(e))
BatchInferFail ==
    /\ bstate = "infer"
    /\ bstate' = "failed"
    /\ response' = "500"
    /\ \E text \in ErrorTexts : detail' = Some(text)
    /\ UNCHANGED <<endpoint, script, verrors, q, pstate, lineIdx, sentIdx, target,
                   pending, enqueued, calls, cstate, emitted, all_samples, levels,
                   wav_body>>
    /\ UNCHANGED notReq

ProducerStep ==
    ProducerLine \/ ProducerPut \/ ProducerSentence

ConsumerStep ==
    ConsumerStart \/ ConsumerGet

Next ==
    \/ Validate
    \/ ConsumerStart
    \/ ProducerLine
    \/ ProducerPut
    \/ ProducerSentence
    \/ ProducerInferOk
    \/ ProducerInferFail
    \/ ConsumerGet
    \/ Disconnect
    \/ BatchLine
    \/ BatchInferOk
    \/ BatchInferFail

\* requests with a script of up to MaxLines lines of the pool
Spec == Init /\ [][Next]_vars

\* the same requests under the scheduling the event loop gives: a runnable
\* task is eventually run, a call handed to a worker thread eventually
\* returns or raises; nothing makes a client disconnect or a call fail
FairSpec ==
    /\ Spec
    /\ WF_vars(Validate)
    /\ WF_vars(ProducerStep)
    /\ WF_vars(ConsumerStep)
    /\ WF_vars(ProducerInferOk \/ ProducerInferFail)
    /\ WF_vars(BatchLine)
    /\ WF_vars(BatchInferOk \/ BatchInferFail)

\* requests whose script is one line, over every combination of field values
LineInit == InitWith({ <<l>> : l \in SingleLines })

LineSpec == LineInit /\ [][Next]_vars

\* requests with a script of up to MaxShortLines short lines
ShortInit == InitWith(ShortScripts)

ShortSpec == ShortInit /\ [][Next]_vars

\* ================================================================ claims
\* helpers of the statements below
Accepted == verrors = [i \in 1..Len(script) |-> "ok"] /\ (response # "none" \/ bstate # "idle")

StreamRunning == endpoint = "stream" /\ response = "stream"

UnitsOf(us, i) == { k \in 1..Len(us) : us[k].line = i /\ us[k].kind # "end" }

CallsOf(i) == { k \in 1..Len(calls) : calls[k].line = i }

\* (line, sentence) of unit a comes before that of unit b in the script
Before(a, b) == a.line < b.line \/ (a.line = b.line /\ a.sent < b.sent)

\* the loop of the request has gone past line i without a failure
Passed(i) ==
    \/ pstate \in {"line", "sent", "infer", "put", "done"} /\ lineIdx > i
    \/ bstate \in {"line", "infer", "done"} /\ lineIdx > i

\* -------------------------------------------------------------------- C1
\* C1: at every moment of a streaming request the chunks emitted so far,
\* followed by what the queue holds (and the end marker once it was read), are
\* exactly the items the producer enqueued, in the same order; the enqueued
\* units are strictly increasing in (line index, sentence index), the silence
\* of a line counting as its sentence 0; and the first content unit of a line
\* with a delay has that line's silence unit right before it.
C1_StreamOrder ==
    StreamRunning =>
      /\ Len(enqueued) = Len(emitted) + Len(q) + (IF cstate = "done" THEN 1 ELSE 0)
      /\ \A k \in 1..Len(emitted) : emitted[k] = ToBytes(enqueued[k])
      /\ \A k \in 1..Len(q) : q[k] = enqueued[Len(enqueued) - Len(q) + k]
      /\ \A j, k \in 1..Len(enqueued) :
            (j < k /\ enqueued[k].kind # "end") => Before(enqueued[j], enqueued[k])
      /\ \A k \in 1..Len(enqueued) :
            LET u == enqueued[k] IN
            /\ u.kind = "silence" =>
                  /\ HasDelay(script[u.line])
                  /\ u = SilenceUnit(u.line, script[u.line])
            /\ (u.kind = "content" /\ HasDelay(script[u.line])
                  /\ \A j \in 1..(k - 1) : ~(enqueued[j].kind = "content"
                                              /\ enqueued[j].line = u.line)) =>
                  /\ k > 1
                  /\ enqueued[k - 1] = SilenceUnit(u.line, script[u.line])

\* a two-line stream read to its end: a content unit of one line, then the
\* silence and the content of a later line
C1_Witness ==
    /\ StreamRunning /\ cstate = "done"
    /\ \E k \in 2..(Len(emitted) - 1) :
          /\ emitted[k].kind = "silence"
          /\ emitted[k - 1].kind = "content" /\ emitted[k - 1].line < emitted[k].line
          /\ emitted[k + 1].kind = "content" /\ emitted[k + 1].line = emitted[k].line

\* -------------------------------------------------------------------- C2
\* C2: the queue never holds more than 20 items, and no step taken while it
\* holds 20 adds an item to what the producer has enqueued.
C2_Backpressure ==
    /\ [](Len(q) <= QueueMaxSize)
    /\ [][Len(q) = QueueMaxSize => enqueued' = enqueued]_vars

\* the producer suspended on a put with 20 unread items in the queue
C2_Witness ==
    /\ Len(q) = QueueMaxSize /\ pstate = "put" /\ cstate = "reading"

\* -------------------------------------------------------------------- C3
\* C3: once an inference call of a streaming request has failed, the consumer
\* eventually stops reading (the stream ends, with or without an error status).
C3_FailureAbortsStream ==
    (pstate = "failed") ~> (cstate \notin {"init", "reading"})

\* -------------------------------------------------------------------- C4
\* C4: no step taken after the consumer is gone issues an inference call.
C4_NoCallAfterDisconnect ==
    [][cstate = "gone" => calls' = calls]_vars

\* -------------------------------------------------------------------- C5
\* C5: the consumer is never gone while the producer is suspended on a put
\* into a full queue (nothing could wake that producer again).
C5_NoOrphanedProducer ==
    ~(cstate = "gone" /\ pstate = "put" /\ ~CanPut(q))

\* -------------------------------------------------------------------- C6
\* C6: the producer enqueues at most one end marker and nothing after it; when
\* the consumer has ended the stream it has read everything enqueued and has
\* emitted a chunk for every item but the end marker; and a streaming request
\* in which no call fails and the client stays connected reaches that end.
C6_EndMarker ==
    /\ [](/\ \A k \in 1..Len(enqueued) :
                enqueued[k].kind = "end" => (k = Len(enqueued) /\ pstate = "done")
          /\ pstate = "done" =>
                (enqueued # <<>> /\ enqueued[Len(enqueued)].kind = "end")
          /\ cstate = "done" =>
                /\ pstate = "done" /\ q = <<>>
                /\ Len(emitted) = Len(enqueued) - 1
                /\ \A k \in 1..Len(emitted) : emitted[k].kind # "end")
    /\ StreamRunning ~> (cstate \in {"done", "gone"} \/ pstate = "failed")

\* a stream longer than the queue read to its end
C6_Witness ==
    /\ StreamRunning /\ cstate = "done" /\ pstate = "done"
    /\ Len(emitted) > QueueMaxSize

\* -------------------------------------------------------------------- C7
\* a line naming a voice the backend does not know
UnknownVoiceLine(line) ==
    /\ TruthyStr(line.voice) /\ line.voice[1] \notin KnownVoices
    /\ ~TruthyList(line.blend_components)

AppliedWeight(comps) ==
    LET RECURSIVE S(_)
        S(k) == IF k = 0 THEN 0
                ELSE S(k - 1) + (IF comps[k].voice \in KnownVoices
                                 THEN comps[k].weight ELSE 0)
    IN S(Len(comps))

\* sum of style * weight over the components whose voice is known
KnownSum(comps) ==
    [d \in 1..EmbDim |->
        LET RECURSIVE S(_)
            S(k) == IF k = 0 THEN 0
                    ELSE S(k - 1) + (IF comps[k].voice \in KnownVoices
                                     THEN VoiceStyle(comps[k].voice)[d] * comps[k].weight
                                     ELSE 0)
        IN S(Len(comps))]

\* C8: the style a blend line is synthesized with, times the weight sum of the
\* known components, equals the weighted style sum of the known components
\* (the resolved style is that sum divided by the weights of the known
\* components only).
C8_BlendDividesByAppliedWeight ==
    \A k \in 1..Len(calls) :
       LET comps == script[calls[k].line].blend_components IN
       TruthyList(comps) =>
          IF AppliedWeight(comps[1]) > 0
          THEN \A d \in 1..EmbDim :
                  calls[k].voice.num[d] * AppliedWeight(comps[1])
                     = KnownSum(comps[1])[d] * calls[k].voice.den
          ELSE calls[k].voice.num = ZeroStyle

\* -------------------------------------------------------------------- C9
\* a blend line none of whose components names a known voice
AllUnknownBlend(line) ==
    /\ TruthyList(line.blend_components)
    /\ \A k \in 1..Len(line.blend_components[1]) :
          line.blend_components[1][k].voice \notin KnownVoices

\* C9: a blend line with only unknown voices is not skipped: once the loop is
\* past it without a failed call, its silence unit (when it has a delay) is in
\* the output and an inference call was issued for it; every call issued for
\* it carries the zero vector; and while the loop is at that line, the
\* resolved target is the zero vector.
C9_AllUnknownBlendIsZeroAndResolved ==
    \A i \in 1..Len(script) :
       (Accepted /\ AllUnknownBlend(script[i])) =>
          /\ \A k \in CallsOf(i) :
                calls[k].voice.kind = "style" /\ calls[k].voice.num = ZeroStyle
          /\ ((pstate \in {"sent", "infer", "put"} \/ bstate = "infer") /\ lineIdx = i) =>
                (target.kind = "style" /\ target.num = ZeroStyle)
          /\ Passed(i) =>
                /\ (Phonemize(script[i].text) # <<>>) => CallsOf(i) # {}
                /\ (HasDelay(script[i]) /\ endpoint = "stream") =>
                      \E k \in UnitsOf(enqueued, i) : enqueued[k].kind = "silence"
                /\ (HasDelay(script[i]) /\ endpoint = "wav") =>
                      \E k \in UnitsOf(all_samples, i) : all_samples[k].kind = "silence"

\* a finished stream of an all-unknown blend line with a delay: silence and
\* content were enqueued
C9_Witness ==
    /\ Accepted /\ Len(script) = 1 /\ AllUnknownBlend(script[1]) /\ HasDelay(script[1])
    /\ pstate = "done" /\ calls # <<>> /\ Len(enqueued) >= 3

\* ------------------------------------------------------------------- C10
\* C10 as stated, a field that is set counting as present: the one-of rule
\* rejects a line exactly when none or both of voice and blend_components are
\* set.
C10_OneOfByPresence ==
    \A i \in 1..Len(verrors) :
       (verrors[i] = "voice_or_blend")
          <=> ~Xor(script[i].voice # None, script[i].blend_components # None)

\* C10 amended: the one-of rule rejects a line exactly when none or both of
\* the two fields hold a non-empty value; an empty string and an empty list
\* count like an absent field.
C10_OneOfByNonEmpty ==
    \A i \in 1..Len(verrors) :
       LET hasVoice == script[i].voice \notin {None, Some("")}
           hasBlend == script[i].blend_components \notin {None, Some(<<>>)} IN
       (verrors[i] = "voice_or_blend")
          <=> ((hasVoice /\ hasBlend) \/ (~hasVoice /\ ~hasBlend))

\* a line with an empty voice string and a non-empty blend passed the rule
C10_Witness ==
    /\ Len(verrors) = 1 /\ verrors[1] # "voice_or_blend"
    /\ script[1].voice = Some("") /\ TruthyList(script[1].blend_components)

\* ------------------------------------------------------------------- C11
\* the script holds a line the request validation rejects
HasInvalidLine == \E i \in 1..Len(script) : LineError(script[i]) # "ok"

\* C11: a request whose script holds an invalid line, at whatever position,
\* never gets past validation: at every moment no inference call was issued,
\* nothing was enqueued, emitted or collected, no loop has started, and the
\* only response it ever gets is the 422 rejection.
C11_InvalidScriptDoesNoBackendWork ==
    HasInvalidLine =>
       /\ calls = <<>> /\ enqueued = <<>> /\ emitted = <<>> /\ all_samples = <<>>
       /\ q = <<>>
       /\ pstate = "idle" /\ bstate = "idle" /\ cstate = "idle"
       /\ response \in {"none", "422"}

\* a rejected three-line script whose only invalid line is the middle one
C11_Witness ==
    /\ response = "422" /\ Len(script) = 3
    /\ LineError(script[1]) = "ok" /\ LineError(script[2]) # "ok"
    /\ LineError(script[3]) = "ok" /\ Resolve(script[1]).kind # "none"

(***************************************************************************)
(* The model registry: the process-wide backend handle and its switch.     *)
(* api.py loads one backend at startup and every synthesis call reads it;  *)
(* the UI's set_model posts the name of the backend to switch to.          *)
(***************************************************************************)

\* the synthesis calls that can be running at once
MaxInflight == 2

\* the suffix the UI appends to the recommended model in its drop-down
OptimalSuffix == " (optimal)"

\* what the drop-down can hand to set_model: a model name and its suffix, or nothing
UiChoices ==
    {<<"", "">>} \cup ((ModelIds \cup {"kokoro-v0.9.onnx"}) \X {"", OptimalSuffix})

\* model_name.replace(" (optimal)", "") on a drop-down entry
StripOptimal(choice) == choice[1]

\* getActive(): the handle a synthesis call is given
GetActive == IF activeSet = {} THEN "none" ELSE CHOOSE h \in activeSet : TRUE

\* a handle can be released once it is neither active nor in use by a call
Releasable(h, active, running) ==
    /\ h \notin active
    /\ \A i \in 1..Len(running) : running[i] # h

\* set_model: an empty selection is refused in the UI, anything else is posted
\* to /set-model, where setActive starts to load the named backend
SetModel(choice) ==
    /\ loadingId = "none"
    /\ IF choice[1] = ""
       THEN /\ uiMessage' = "no_model"
            /\ UNCHANGED loadingId
       ELSE /\ uiMessage' = "sent"
            /\ loadingId' = StripOptimal(choice)
    /\ UNCHANGED <<activeSet, resident, inflight, artifactOk>>
    /\ UNCHANGED notReg

SetModelStep == \E choice \in UiChoices : SetModel(choice)

RegLoadFailClearsActive ==
    /\ loadingId # "none"
    /\ loadingId \notin artifactOk
    /\ loadingId' = "none"
    /\ uiMessage' = "error"
    /\ activeSet' = {}
    /\ UNCHANGED <<resident, inflight, artifactOk>>
    /\ UNCHANGED notReg

\* setActive fails with ModelLoadError: the artifact is missing or corrupt
RegLoadFail ==
    /\ loadingId # "none"
    /\ loadingId \notin artifactOk
    /\ loadingId' = "none"
    /\ uiMessage' = "error"
    /\ UNCHANGED <<activeSet, resident, inflight, artifactOk>>
    /\ UNCHANGED notReg

\* setActive succeeds: the loaded handle replaces the active one in one step,
\* then the old handle is released unless a running call still uses it
RegLoadOk ==
    /\ loadingId # "none"
    /\ loadingId \in artifactOk
    /\ activeSet' = {loadingId}
    /\ resident' = {h \in resident \cup {loadingId} :
                        ~Releasable(h, {loadingId}, inflight)}
    /\ loadingId' = "none"
    /\ uiMessage' = "ok"
    /\ UNCHANGED <<inflight, artifactOk>>
    /\ UNCHANGED notReg

\* a synthesis call starts: it takes the active handle and keeps it to its end
RegSynthBegin ==
    /\ Len(inflight) < MaxInflight
    /\ inflight' = Append(inflight, GetActive)
    /\ UNCHANGED <<activeSet, resident, loadingId, artifactOk, uiMessage>>
    /\ UNCHANGED notReg

\* a synthesis call ends; a replaced handle goes with its last call
RegSynthEnd(i) ==
    /\ i \in 1..Len(inflight)
    /\ LET rest == [k \in 1..(Len(inflight) - 1) |->
                        IF k < i THEN inflight[k] ELSE inflight[k + 1]]
       IN  /\ inflight' = rest
           /\ resident' = {h \in resident : ~Releasable(h, activeSet, rest)}
    /\ UNCHANGED <<activeSet, loadingId, artifactOk, uiMessage>>
    /\ UNCHANGED notReg

RegSynthEndStep == \E i \in 1..MaxInflight : RegSynthEnd(i)

\* after startup: the startup model is loaded and active, the other
\* artifacts may or may not be usable
RegInit ==
    /\ ReqIdle
    /\ activeSet = {MODEL_FILE}
    /\ resident = {MODEL_FILE}
    /\ loadingId = "none"
    /\ inflight = <<>>
    /\ artifactOk \in {ok \in SUBSET ModelIds : MODEL_FILE \in ok}
    /\ uiMessage = "none"
    /\ BenchIdle
    /\ StartIdle
    /\ MultiIdle
    /\ SegIdle
    /\ ClientIdle

RegNext ==
    \/ SetModelStep
    \/ RegLoadOk
    \/ RegLoadFail
    \/ RegSynthBegin
    \/ RegSynthEndStep

RegSpec == RegInit /\ [][RegNext]_vars

\* C12: there is exactly one active backend and it is loaded; every running
\* synthesis call holds a loaded backend; the active backend changes only to
\* the requested backend whose load succeeded; a failed load changes nothing
\* in the registry.
C12_RegistrySwap ==
    [][ /\ Cardinality(activeSet) = 1
        /\ activeSet \subseteq resident
        /\ \A i \in 1..Len(inflight) : inflight[i] \in resident
        /\ (activeSet' # activeSet) =>
              /\ loadingId \in artifactOk
              /\ activeSet' = {loadingId}
              /\ loadingId \in resident'
        /\ (loadingId # "none" /\ loadingId \notin artifactOk /\ loadingId' = "none") =>
              /\ activeSet' = activeSet
              /\ resident' = resident ]_vars

\* a call still runs on the replaced backend after a switch, and a later
\* switch to an unusable artifact has failed
C12_Witness ==
    /\ activeSet # {MODEL_FILE}
    /\ \E i \in 1..Len(inflight) : inflight[i] = MODEL_FILE
    /\ Cardinality(resident) = 2
    /\ uiMessage = "error"

(***************************************************************************)
(* benchmark.py: the candidates are benchmarked one after another and the  *)
(* recommendations are computed from the results.                          *)
(***************************************************************************)

\* MODELS_TO_BENCHMARK, in declaration order
MODELS_TO_BENCHMARK ==
    << "kokoro-v1.0.onnx", "kokoro-v1.0.fp16.onnx", "kokoro-v1.0.int8.onnx" >>

\* the characters of a file name
NameChars(name) ==
    CASE name = "kokoro-v1.0.onnx" ->
           <<"k","o","k","o","r","o","-","v","1",".","0",".","o","n","n","x">>
      [] name = "kokoro-v1.0.fp16.onnx" ->
           <<"k","o","k","o","r","o","-","v","1",".","0",".","f","p","1","6",
             ".","o","n","n","x">>
      [] name = "kokoro-v1.0.int8.onnx" ->
           <<"k","o","k","o","r","o","-","v","1",".","0",".","i","n","t","8",
             ".","o","n","n","x">>

\* sub occurs in s at position i
OccursAt(s, sub, i) ==
    /\ i >= 1
    /\ i + Len(sub) - 1 <= Len(s)
    /\ \A k \in 1..Len(sub) : s[i + k - 1] = sub[k]

\* str.endswith
EndsWith(s, suffix) == OccursAt(s, suffix, Len(s) - Len(suffix) + 1)

\* the Python test `sub in s`
Contains(s, sub) == \E i \in 1..Len(s) : OccursAt(s, sub, i)

DotOnnx == <<".","o","n","n","x">>
Fp16DotOnnx == <<"f","p","1","6",".","o","n","n","x">>

\* a result row: the name and the two measurements its rtf is the quotient of
Result(name, infer_time, duration) ==
    [name |-> name, infer_time |-> infer_time, duration |-> duration]

\* r['rtf'] < s['rtf'], the quotients compared exactly
RtfLess(r, s) == r.infer_time * s.duration < s.infer_time * r.duration

\* min(results, key=rtf): the first row no other row is strictly below
MinByRtfLast(rows) ==
    LET i == CHOOSE i \in 1..Len(rows) :
                 /\ \A j \in 1..Len(rows) : ~RtfLess(rows[j], rows[i])
                 /\ \A j \in (i + 1)..Len(rows) : RtfLess(rows[i], rows[j])
    IN  rows[i]

MinByRtf(rows) ==
    LET i == CHOOSE i \in 1..Len(rows) :
                 /\ \A j \in 1..Len(rows) : ~RtfLess(rows[j], rows[i])
                 /\ \A j \in 1..(i - 1) : RtfLess(rows[i], rows[j])
    IN  rows[i]

\* next((r for r in rows if ...), default) where hits are the positions of
\* the rows that pass the filter: the pick as an optional row
FirstOr(rows, hits, default) ==
    IF hits = {}
    THEN default
    ELSE Some(rows[CHOOSE i \in hits : \A j \in hits : i <= j])

IsHighestQualityAnyOnnx(r) ==
    /\ EndsWith(NameChars(r.name), DotOnnx)
    /\ ~Contains(NameChars(r.name), <<"i","n","t">>)

\* the filter of highest_quality
IsHighestQuality(r) ==
    /\ EndsWith(NameChars(r.name), DotOnnx)
    /\ ~Contains(NameChars(r.name), <<"f","p">>)
    /\ ~Contains(NameChars(r.name), <<"i","n","t">>)

\* the filter of best_balanced
IsBestBalanced(r) == EndsWith(NameChars(r.name), Fp16DotOnnx)

\* the three picks of print_recommendations, each an optional row
Recommendations(rows) ==
    LET fastest_inference == MinByRtf(rows)
    IN  [printed |-> TRUE,
         fastest_inference |-> Some(fastest_inference),
         highest_quality |->
             FirstOr(rows, {i \in 1..Len(rows) : IsHighestQuality(rows[i])}, None),
         best_balanced |->
             FirstOr(rows, {i \in 1..Len(rows) : IsBestBalanced(rows[i])},
                     Some(fastest_inference))]

\* the measurements a run can take, in milliseconds
InferTimes == {40, 50, 90, 100}
Durations == {100, 200}

\* the asset the loop is at: 0 is the voices file, i the i-th candidate
AssetCount == Len(MODELS_TO_BENCHMARK)

\* the memory a loaded candidate takes, the memory of the audio of one
\* inference, and what can stay behind after `del kokoro_instance`
ModelMem(name) ==
    CASE name = "kokoro-v1.0.onnx" -> 8
      [] name = "kokoro-v1.0.fp16.onnx" -> 4
      [] name = "kokoro-v1.0.int8.onnx" -> 2
InferMem == 1
Retained == {0, 1}

\* download_file_if_missing returns: the voices file is followed by the
\* baseline memory reading and the first candidate's download, a candidate's
\* download by its load
BenchDownloadOk ==
    /\ bpc = "download"
    /\ IF bidx = 0
       THEN /\ bidx' = 1
            /\ mem_before_all' = rss
            /\ UNCHANGED bpc
       ELSE /\ bpc' = "load"
            /\ UNCHANGED <<bidx, mem_before_all>>
    /\ UNCHANGED <<results, recs, bresident, bexit, rss, load_rss, mem_rows>>
    /\ UNCHANGED notBench

\* download_file_if_missing fails: FATAL is printed and sys.exit(1) ends the run
BenchDownloadFail ==
    /\ bpc = "download"
    /\ bpc' = "aborted"
    /\ bexit' = "exit1"
    /\ UNCHANGED <<bidx, results, recs, bresident, benchMem>>
    /\ UNCHANGED notBench

\* Kokoro(model_path, voices_path) returns
BenchLoadOk ==
    /\ bpc = "load"
    /\ bresident' = bresident \cup {MODELS_TO_BENCHMARK[bidx]}
    /\ load_rss' = rss
    /\ rss' = rss + ModelMem(MODELS_TO_BENCHMARK[bidx])
    /\ bpc' = "infer"
    /\ UNCHANGED <<bidx, results, recs, bexit, mem_before_all, mem_rows>>
    /\ UNCHANGED notBench

\* Kokoro(...) raises: nothing in the loop catches it, the process ends
BenchLoadFail ==
    /\ bpc = "load"
    /\ bpc' = "aborted"
    /\ bexit' = "exception"
    /\ bresident' = {}
    /\ UNCHANGED <<bidx, results, recs, benchMem>>
    /\ UNCHANGED notBench

\* mem_after_infer and model_mem_usage = mem_after_infer - mem_before_all,
\* kept with the reading taken before the candidate's load
MemRow == [mem_usage |-> (rss + InferMem) - mem_before_all,
           after_infer |-> rss + InferMem,
           before_load |-> load_rss]

BenchInferOkKeepsInstance ==
    /\ bpc = "infer"
    /\ \E t \in InferTimes, d \in Durations :
          results' = Append(results, Result(MODELS_TO_BENCHMARK[bidx], t, d))
    /\ mem_rows' = Append(mem_rows, MemRow)
    /\ rss' = rss + InferMem
    /\ bidx' = bidx + 1
    /\ bpc' = IF bidx = AssetCount THEN "report" ELSE "download"
    /\ UNCHANGED <<recs, bexit, bresident, mem_before_all, load_rss>>
    /\ UNCHANGED notBench

\* kokoro_instance.create returns: the memory is read, the row is appended,
\* the instance deleted (which frees its memory or most of it), and the loop
\* goes on to the next candidate or to the report
BenchInferOk ==
    /\ bpc = "infer"
    /\ \E t \in InferTimes, d \in Durations :
          results' = Append(results, Result(MODELS_TO_BENCHMARK[bidx], t, d))
    /\ mem_rows' = Append(mem_rows, MemRow)
    /\ \E kept \in Retained : rss' = load_rss + kept
    /\ bresident' = bresident \ {MODELS_TO_BENCHMARK[bidx]}
    /\ bidx' = bidx + 1
    /\ bpc' = IF bidx = AssetCount THEN "report" ELSE "download"
    /\ UNCHANGED <<recs, bexit, mem_before_all, load_rss>>
    /\ UNCHANGED notBench

\* kokoro_instance.create raises: uncaught as well
BenchInferFail ==
    /\ bpc = "infer"
    /\ bpc' = "aborted"
    /\ bexit' = "exception"
    /\ bresident' = {}
    /\ UNCHANGED <<bidx, results, recs, benchMem>>
    /\ UNCHANGED notBench

\* the end of the run: the table is printed from a sorted copy of the rows,
\* then print_recommendations(results), which prints nothing for no rows
PrintRecommendations ==
    /\ bpc = "report"
    /\ recs' = IF results = <<>> THEN NoRecs ELSE Recommendations(results)
    /\ bpc' = "done"
    /\ UNCHANGED <<bidx, results, bresident, bexit, benchMem>>
    /\ UNCHANGED notBench

\* a run of benchmark.py from its first line
BenchInit ==
    /\ ReqIdle
    /\ RegIdle
    /\ bpc = "download"
    /\ bidx = 0
    /\ results = <<>>
    /\ recs = NoRecs
    /\ bresident = {}
    /\ bexit = "none"
    /\ rss = BaseRss
    /\ mem_before_all = 0
    /\ load_rss = 0
    /\ mem_rows = <<>>
    /\ StartIdle
    /\ MultiIdle
    /\ SegIdle
    /\ ClientIdle

BenchNext ==
    \/ BenchDownloadOk
    \/ BenchDownloadFail
    \/ BenchLoadOk
    \/ BenchLoadFail
    \/ BenchInferOk
    \/ BenchInferFail
    \/ PrintRecommendations

BenchSpec == BenchInit /\ [][BenchNext]_vars

\* the rows of the candidates idxs, in declaration order, with any measurements
RowsOf(idxs) ==
    LET n == Cardinality(idxs)
        \* the k-th smallest index of idxs
        Nth(k) == CHOOSE i \in idxs : Cardinality({j \in idxs : j < i}) = k - 1
    IN  { [k \in 1..n |-> Result(MODELS_TO_BENCHMARK[Nth(k)], tm[k][1], tm[k][2])] :
            tm \in [1..n -> InferTimes \X Durations] }

\* the result lists print_recommendations is applied to
RecInputs == UNION { RowsOf(idxs) : idxs \in SUBSET (1..AssetCount) }

\* print_recommendations about to be called on any list of rows
RecInit ==
    /\ ReqIdle
    /\ RegIdle
    /\ bpc = "report"
    /\ bidx = AssetCount + 1
    /\ results \in RecInputs
    /\ recs = NoRecs
    /\ bresident = {}
    /\ bexit = "none"
    /\ rss = BaseRss
    /\ mem_before_all = 0
    /\ load_rss = 0
    /\ mem_rows = <<>>
    /\ StartIdle
    /\ MultiIdle
    /\ SegIdle
    /\ ClientIdle

RecNext == PrintRecommendations

RecSpec == RecInit /\ [][RecNext]_vars

FullName == "kokoro-v1.0.onnx"
HalfName == "kokoro-v1.0.fp16.onnx"
QuantName == "kokoro-v1.0.int8.onnx"

\* the rows of results with the given name
RowsNamed(name) == {r \in {results[i] : i \in 1..Len(results)} : r.name = name}

\* row r has the minimum real-time factor of results
HasMinRtf(r) ==
    \A i \in 1..Len(results) :
        r.infer_time * results[i].duration <= results[i].infer_time * r.duration

\* C13: from a non-empty result list, fastest is a row with the minimum
\* real-time factor, highestQuality is the full-precision row when there is
\* one and absent otherwise, bestBalanced is the half-precision row when there
\* is one and fastest otherwise.
C13_RecommendationPolicy ==
    (bpc = "done" /\ results # <<>>) =>
       /\ recs.printed
       /\ \E i \in 1..Len(results) :
             /\ recs.fastest_inference = Some(results[i])
             /\ HasMinRtf(results[i])
       /\ IF RowsNamed(FullName) = {}
          THEN recs.highest_quality = None
          ELSE \E r \in RowsNamed(FullName) : recs.highest_quality = Some(r)
       /\ IF RowsNamed(HalfName) = {}
          THEN recs.best_balanced = recs.fastest_inference
          ELSE \E r \in RowsNamed(HalfName) : recs.best_balanced = Some(r)

\* full, half and quantized with real-time factors 0.9, 0.5 and 0.4
C13_Witness ==
    /\ bpc = "done"
    /\ results = << Result(FullName, 90, 100), Result(HalfName, 50, 100),
                    Result(QuantName, 40, 100) >>
    /\ recs.best_balanced = Some(Result(HalfName, 50, 100))
    /\ recs.fastest_inference = Some(Result(QuantName, 40, 100))
    /\ recs.highest_quality = Some(Result(FullName, 90, 100))

\* the position of a candidate in the declared list
DeclIndex(name) == CHOOSE i \in 1..AssetCount : MODELS_TO_BENCHMARK[i] = name

\* C14: when several rows share the minimum real-time factor, fastest is the
\* row of the candidate declared first among them, and so is bestBalanced
\* when there is no half-precision row.
C14_TieGoesToFirstDeclared ==
    (bpc = "done" /\ results # <<>>) =>
       \E i \in 1..Len(results) :
          /\ recs.fastest_inference = Some(results[i])
          /\ \A j \in 1..Len(results) :
                HasMinRtf(results[j]) =>
                   DeclIndex(results[i].name) <= DeclIndex(results[j].name)
          /\ RowsNamed(HalfName) = {} => recs.best_balanced = Some(results[i])

\* full precision and quantized tie at 0.5, there is no half-precision row
C14_Witness ==
    /\ bpc = "done"
    /\ results = << Result(FullName, 50, 100), Result(QuantName, 100, 200) >>
    /\ recs.fastest_inference = Some(Result(FullName, 50, 100))
    /\ recs.best_balanced = Some(Result(FullName, 50, 100))

\* C15: a candidate whose load or inference raises does not end the run.
C15_CandidateFailureKeepsRunGoing ==
    ~(bpc = "aborted" /\ bexit = "exception" /\ bidx \in 1..AssetCount)

\* C16: at most one candidate backend is loaded, and only the one the run is
\* at; nothing is loaded while an asset is fetched or loaded; the rows are
\* those of the candidates before the current one, in declaration order.
C16_OneResidentInDeclarationOrder ==
    /\ Cardinality(bresident) <= 1
    /\ \A name \in bresident : bidx \in 1..AssetCount /\ name = MODELS_TO_BENCHMARK[bidx]
    /\ bpc \in {"download", "load"} => bresident = {}
    /\ \A k \in 1..Len(results) : results[k].name = MODELS_TO_BENCHMARK[k]
    /\ (bpc \in {"load", "infer"}) => Len(results) = bidx - 1

\* the third candidate is loaded after the first two were measured and released
C16_Witness ==
    /\ bpc = "infer"
    /\ bidx = AssetCount
    /\ bresident = {QuantName}
    /\ Len(results) = AssetCount - 1

\* line i of the script gets a backend call on the batch path
BatchCallLine(i) ==
    /\ Resolve(script[i]).kind # "none"
    /\ Phonemize(script[i].text) # <<>>

\* line i of the script gets a silence array on the batch path
BatchSilenceLine(i) ==
    /\ Resolve(script[i]).kind # "none"
    /\ HasDelay(script[i])

\* C17: on the batch path the calls are issued in script order, at most one
\* per line and only for resolved lines with phonemes, each on the phonemes of
\* the whole line text; a call is made only when everything before it is in
\* the list; the arrays are in script order, a line's silence before its
\* content; and at the end every such line has its call and its arrays, and
\* the encoded buffer is their concatenation in that order.
C17_BatchSequentialWholeLine ==
    (endpoint = "wav") =>
       /\ \A k \in 1..Len(calls) :
             /\ calls[k].sent = 0
             /\ BatchCallLine(calls[k].line)
             /\ calls[k].phonemes = Phonemize(script[calls[k].line].text)
             /\ k > 1 => calls[k - 1].line < calls[k].line
       /\ \A k \in 1..Len(all_samples), l \in 1..Len(all_samples) :
             k < l => \/ all_samples[k].line < all_samples[l].line
                      \/ /\ all_samples[k].line = all_samples[l].line
                         /\ all_samples[k].kind = "silence"
                         /\ all_samples[l].kind = "content"
       /\ bstate = "infer" =>
             /\ calls[Len(calls)].line = lineIdx
             /\ \A k \in 1..Len(all_samples) : all_samples[k].kind = "content" =>
                                                  all_samples[k].line < lineIdx
       /\ bstate = "done" =>
             /\ { calls[k].line : k \in 1..Len(calls) } =
                   { i \in 1..Len(script) : BatchCallLine(i) }
             /\ { all_samples[k] : k \in 1..Len(all_samples) } =
                   { SilenceUnit(i, script[i]) :
                        i \in { i \in 1..Len(script) : BatchSilenceLine(i) } }
                   \cup
                   { ContentUnit(i, 0, Phonemize(script[i].text), script[i].speed) :
                        i \in { i \in 1..Len(script) : BatchCallLine(i) } }
             /\ response = "wav" =>
                   /\ Len(wav_body[1].data) = Len(all_samples)
                   /\ \A k \in 1..Len(all_samples) :
                         /\ wav_body[1].data[k].nsamples = all_samples[k].nsamples
                         /\ wav_body[1].data[k].num = levels[k]

\* three lines, the middle one skipped, the last one with two sentences and a
\* single call on its whole text
C17_Witness ==
    /\ endpoint = "wav"
    /\ bstate = "done"
    /\ response = "wav"
    /\ Len(script) = 3
    /\ Resolve(script[2]).kind = "none"
    /\ HasDelay(script[1])
    /\ Len(Sentences(script[3].text)) = 2
    /\ Len(calls) = 2
    /\ calls[2].line = 3
    /\ Len(all_samples) = 3

\* C18: an accepted batch request with no resolvable line (an empty script
\* included) issues no call, never answers with an error, and answers with a
\* successful empty body.
C18_EmptyBatchIsEmptySuccess ==
    (/\ endpoint = "wav"
     /\ Accepted
     /\ \A i \in 1..Len(script) : Resolve(script[i]).kind = "none") =>
       /\ calls = <<>>
       /\ bstate \in {"line", "done"}
       /\ response \in {"none", "empty"}
       /\ bstate = "done" => response = "empty" /\ wav_body = <<>>

\* two lines, neither resolvable, one of them with a delay
C18_Witness ==
    /\ endpoint = "wav"
    /\ bstate = "done"
    /\ response = "empty"
    /\ wav_body = <<>>
    /\ Len(script) = 2
    /\ \A i \in 1..2 : Resolve(script[i]).kind = "none" /\ LineError(script[i]) = "ok"
    /\ \E i \in 1..2 : HasDelay(script[i])

\* the samples of the encoded buffer, each as <<numerator, denominator>>
EncodedValues ==
    LET data == wav_body[1].data IN
    UNION { { <<data[k].num[j], data[k].den>> :
                 j \in { j \in 1..Len(data[k].num) : j <= data[k].nsamples } } :
            k \in { k \in 1..Len(data) : data[k].nsamples > 0 } }

\* C19: when the concatenated buffer has a non-zero sample, every encoded
\* sample is the original divided by one common positive value, no encoded
\* sample exceeds 1 in absolute value and one reaches exactly 1; a buffer of
\* zeros is encoded as it is.
C19_PeakNormalized ==
    (endpoint = "wav" /\ response = "wav") =>
       /\ \A k \in 1..Len(all_samples) : wav_body[1].data[k].num = levels[k]
       /\ IF \E v \in EncodedValues : v[1] # 0
          THEN /\ \A k \in 1..Len(all_samples) :
                     /\ wav_body[1].data[k].den = wav_body[1].data[1].den
                     /\ wav_body[1].data[k].den > 0
               /\ \A v \in EncodedValues : Abs(v[1]) <= v[2]
               /\ \E v \in EncodedValues : Abs(v[1]) = v[2]
          ELSE \A k \in 1..Len(all_samples) : wav_body[1].data[k].den = 1

\* the peak is a negative sample of one array, and the samples of another
\* array and of a silence were divided by it as well
C19_Witness ==
    /\ endpoint = "wav"
    /\ response = "wav"
    /\ \E k \in 1..Len(levels) : levels[k] = <<3, -6>>
    /\ \E k \in 1..Len(levels) : levels[k] = <<2, 1>>
    /\ \E k \in 1..Len(levels) : all_samples[k].kind = "silence"
    /\ \A k \in 1..Len(levels) : wav_body[1].data[k].den = 6

(***************************************************************************)
(* Startup of the service: download_models_if_missing, then the load of    *)
(* the model and the voices.                                               *)
(***************************************************************************)

\* the starts a run of the model follows
MaxStarts == 2

\* the content-length header of a download: absent, or a number of bytes
DeclaredLengths == {None, Some(0), Some(1), Some(2), Some(3)}

\* the bytes a download can leave in the file
WrittenLengths == 0..FullSize

\* what a response can be: nothing is read from a body declared empty
Transfers ==
    { t \in DeclaredLengths \X WrittenLengths : t[1] = Some(0) => t[2] = 0 }

\* the asset startup is looking at
CurrentAsset == IF spc = "check_model" THEN "model" ELSE "voices"

\* where startup goes after an asset is in place
AfterAsset == IF spc = "check_model" THEN "check_voices" ELSE "load"

\* total_size = int(r.headers.get('content-length', 0))
TotalSize(declared) == IF declared = None THEN 0 ELSE declared[1]

\* total_size != 0 and os.path.getsize(destination) != total_size
IsIncomplete(declared, written) ==
    TotalSize(declared) # 0 /\ written # TotalSize(declared)

\* os.path.exists(path): the download is skipped
StartSkipDownload ==
    /\ spc \in {"check_model", "check_voices"}
    /\ disk[CurrentAsset] # None
    /\ spc' = AfterAsset
    /\ UNCHANGED <<disk, starts, dl, sloaded, tainted>>
    /\ UNCHANGED notStart

\* download_file_robust writes the body and finds nothing wrong with it
StartDownloadOk ==
    /\ spc \in {"check_model", "check_voices"}
    /\ disk[CurrentAsset] = None
    /\ \E t \in Transfers :
          /\ ~IsIncomplete(t[1], t[2])
          /\ disk' = [disk EXCEPT ![CurrentAsset] = Some(t[2])]
          /\ dl' = [asset |-> CurrentAsset, declared |-> t[1], written |-> t[2],
                    start |-> starts]
    /\ spc' = AfterAsset
    /\ UNCHANGED <<starts, sloaded, tainted>>
    /\ UNCHANGED notStart

StartDownloadMismatchGoesOn ==
    /\ spc \in {"check_model", "check_voices"}
    /\ disk[CurrentAsset] = None
    /\ \E t \in Transfers :
          /\ IsIncomplete(t[1], t[2])
          /\ disk' = [disk EXCEPT ![CurrentAsset] = Some(t[2])]
          /\ dl' = [asset |-> CurrentAsset, declared |-> t[1], written |-> t[2],
                    start |-> starts]
    /\ spc' = AfterAsset
    /\ tainted' = tainted \cup {CurrentAsset}
    /\ UNCHANGED <<starts, sloaded>>
    /\ UNCHANGED notStart

\* download_file_robust finds the file's length different from the declared
\* one: FATAL is printed and sys.exit(1) ends the process; the file stays
StartDownloadMismatch ==
    /\ spc \in {"check_model", "check_voices"}
    /\ disk[CurrentAsset] = None
    /\ \E t \in Transfers :
          /\ IsIncomplete(t[1], t[2])
          /\ disk' = [disk EXCEPT ![CurrentAsset] = Some(t[2])]
          /\ dl' = [asset |-> CurrentAsset, declared |-> t[1], written |-> t[2],
                    start |-> starts]
    /\ spc' = "exited"
    /\ tainted' = tainted \cup {CurrentAsset}
    /\ UNCHANGED <<starts, sloaded>>
    /\ UNCHANGED notStart

\* the request or the transfer raises: the except clause prints FATAL and
\* exits; the file is absent when the request failed before open(), and holds
\* what was written when the transfer broke
StartDownloadError ==
    /\ spc \in {"check_model", "check_voices"}
    /\ disk[CurrentAsset] = None
    /\ \E left \in {None} \cup {Some(n) : n \in 0..(FullSize - 1)} :
          /\ disk' = [disk EXCEPT ![CurrentAsset] = left]
          /\ tainted' = IF left = None THEN tainted ELSE tainted \cup {CurrentAsset}
    /\ spc' = "exited"
    /\ UNCHANGED <<starts, dl, sloaded>>
    /\ UNCHANGED notStart

\* the files are both complete
FilesComplete == \A a \in Assets : disk[a] = Some(FullSize)

\* Kokoro(model_path, voices_path) returns and the API is ready; the loader
\* reads a file that has all of its bytes, however it got there
StartLoadOk ==
    /\ spc = "load"
    /\ FilesComplete
    /\ spc' = "ready"
    /\ sloaded' = TRUE
    /\ UNCHANGED <<disk, starts, dl, tainted>>
    /\ UNCHANGED notStart

\* Kokoro(...) raises on a file it cannot read: the import of api.py fails
StartLoadFail ==
    /\ spc = "load"
    /\ ~FilesComplete
    /\ spc' = "crashed"
    /\ UNCHANGED <<disk, starts, dl, sloaded, tainted>>
    /\ UNCHANGED notStart

\* the process is started again on the same disk
Restart ==
    /\ spc \in {"exited", "crashed"}
    /\ starts < MaxStarts
    /\ starts' = starts + 1
    /\ spc' = "check_model"
    /\ sloaded' = FALSE
    /\ UNCHANGED <<disk, dl, tainted>>
    /\ UNCHANGED notStart

\* the first start, on a disk where each asset is absent or complete
StartInit ==
    /\ ReqIdle
    /\ RegIdle
    /\ BenchIdle
    /\ MultiIdle
    /\ SegIdle
    /\ ClientIdle
    /\ spc = "check_model"
    /\ disk \in [Assets -> {None, Some(FullSize)}]
    /\ starts = 1
    /\ dl = NoDownload
    /\ sloaded = FALSE
    /\ tainted = {}

StartNext ==
    \/ StartSkipDownload
    \/ StartDownloadOk
    \/ StartDownloadMismatch
    \/ StartDownloadError
    \/ StartLoadOk
    \/ StartLoadFail
    \/ Restart

StartSpec == StartInit /\ [][StartNext]_vars

\* C20: in the start in which a download left a file whose length differs
\* from the declared content length, the process has exited, the model was
\* not loaded and the service is not ready.
C20_LengthMismatchAbortsStartup ==
    (/\ dl.start = starts
     /\ dl.declared # None
     /\ dl.written # dl.declared[1]) =>
       /\ spc = "exited"
       /\ ~sloaded

\* the model file was fetched in full, then the voices file came one byte short
C20_Witness ==
    /\ spc = "exited"
    /\ dl = [asset |-> "voices", declared |-> Some(2), written |-> 1, start |-> starts]
    /\ disk["model"] = Some(FullSize)
    /\ disk["voices"] = Some(1)

(***************************************************************************)
(* Blends and the order of their components.                               *)
(***************************************************************************)

\* the components the compared blends are made of: known and unknown voices,
\* equal and different weights, weight 0
BlendComponents ==
    { Comp("af_sky", 10), Comp("af_sky", 5), Comp("am_adam", 5), Comp("am_adam", 0),
      Comp("zz_nobody", 5), Comp("zz_nobody", 0) }

\* single-line requests whose line is a blend of up to MaxBlendLen components
BlendLines ==
    { Line(TOne, None, Some(b), None) : b \in SeqsUpTo(BlendComponents, MaxBlendLen) }

BlendInit == InitWith({ <<l>> : l \in BlendLines })

BlendSpec == BlendInit /\ [][Next]_vars

\* the orderings of n components
Perms(n) == { p \in [1..n -> 1..n] : \A i \in 1..n, j \in 1..n : p[i] = p[j] => i = j }

\* the components of a blend in another order
Permute(comps, p) == [k \in 1..Len(comps) |-> comps[p[k]]]

\* C21: the embedding a blend line is synthesized with is the embedding of
\* every reordering of its components, unknown voices among them or not.
C21_BlendOrderIrrelevant ==
    \A k \in 1..Len(calls) :
       LET blend == script[calls[k].line].blend_components IN
       TruthyList(blend) =>
          \A p \in Perms(Len(blend[1])) :
             /\ Resolve([script[calls[k].line] EXCEPT
                            !.blend_components = Some(Permute(blend[1], p))])
                   = calls[k].voice
             /\ BlendStyle(Permute(blend[1], p)).num = calls[k].voice.num
             /\ BlendStyle(Permute(blend[1], p)).den = calls[k].voice.den

\* a call was made for a blend of three different components with different
\* weights, one of them an unknown voice
C21_Witness ==
    /\ Len(calls) = 1
    /\ TruthyList(script[1].blend_components)
    /\ script[1].blend_components[1] =
          << Comp("af_sky", 10), Comp("zz_nobody", 5), Comp("am_adam", 5) >>
    /\ calls[1].voice.num # ZeroStyle

(***************************************************************************)
(* Several calls of synthesize_stream at once.  Each call makes its own    *)
(* queue, producer and stream_generator as locals of the call; all of them *)
(* read the one loaded backend.                                            *)
(***************************************************************************)

\* the content units the producer makes of line i: one per sentence with phonemes
LineContentUnits(i, line) ==
    LET sents == Sentences(line.text)
        voiced == { k \in 1..Len(sents) : Phonemize(sents[k]) # <<>> }
        nth(j) == CHOOSE k \in voiced : Cardinality({ m \in voiced : m < k }) = j - 1
    IN  [j \in 1..Cardinality(voiced) |->
            ContentUnit(i, nth(j), Phonemize(sents[nth(j)]), line.speed)]

\* what the producer puts for line i: nothing for a line that does not
\* resolve, else the silence of its delay, then its content units
LineStreamUnits(i, line) ==
    IF Resolve(line).kind = "none"
    THEN <<>>
    ELSE (IF HasDelay(line) THEN <<SilenceUnit(i, line)>> ELSE <<>>)
            \o LineContentUnits(i, line)

\* what the producer puts for a script before the end marker
StreamUnits(lines) ==
    LET RECURSIVE F(_)
        F(i) == IF i = 0 THEN <<>> ELSE F(i - 1) \o LineStreamUnits(i, lines[i])
    IN  F(Len(lines))

\* the scripts of the concurrent requests: one with a delay, one without,
\* one that fails validation
MultiScripts ==
    { << Line(TOne, Some("af_sky"), None, Some(200)) >>,
      << Line(TOne, Some("am_adam"), None, None) >>,
      << Line(TOne, Some("af_sky"), Some(<<Comp("am_adam", 10)>>), None) >> }

\* the units of each of these scripts, computed once
StreamUnitsOf == [s \in MultiScripts |-> StreamUnits(s)]

\* an item of a request's queue: the request that made it and the unit
Item(r, unit) == [req |-> r, unit |-> unit]

\* a chunk of a request's stream
Chunk(item) == [req |-> item.req, bytes |-> ToBytes(item.unit)]

\* the request arrives: FastAPI validates the body, then the handler makes the
\* queue and returns the StreamingResponse
MStart(r) ==
    /\ mresp[r] = "none"
    /\ IF \E i \in 1..Len(mscript[r]) : LineError(mscript[r][i]) # "ok"
       THEN /\ mresp' = [mresp EXCEPT ![r] = "422"]
            /\ UNCHANGED mcs
       ELSE /\ mresp' = [mresp EXCEPT ![r] = "stream"]
            /\ mcs' = [mcs EXCEPT ![r] = "init"]
    /\ UNCHANGED <<mscript, mq, mpc, mpos, mout>>
    /\ UNCHANGED notMulti

\* first iteration of the request's stream_generator: create_task(producer())
MConsumerStart(r) ==
    /\ mcs[r] = "init"
    /\ mcs' = [mcs EXCEPT ![r] = "reading"]
    /\ mpc' = [mpc EXCEPT ![r] = "next"]
    /\ mpos' = [mpos EXCEPT ![r] = 1]
    /\ UNCHANGED <<mscript, mresp, mq, mout>>
    /\ UNCHANGED notMulti

\* the request's producer goes to its next unit: a silence is put at once, a
\* content unit needs a backend call first, after the last unit None is put
MProducerNext(r) ==
    /\ mpc[r] = "next"
    /\ LET units == StreamUnitsOf[mscript[r]] IN
       mpc' = [mpc EXCEPT ![r] =
                  IF mpos[r] > Len(units) THEN "putend"
                  ELSE IF units[mpos[r]].kind = "silence" THEN "put"
                  ELSE "infer"]
    /\ UNCHANGED <<mscript, mresp, mq, mpos, mcs, mout>>
    /\ UNCHANGED notMulti

\* kokoro.create returns to the request's producer
MInferOk(r) ==
    /\ mpc[r] = "infer"
    /\ mpc' = [mpc EXCEPT ![r] = "put"]
    /\ UNCHANGED <<mscript, mresp, mq, mpos, mcs, mout>>
    /\ UNCHANGED notMulti

\* kokoro.create raises in the request's producer task, which ends
MInferFail(r) ==
    /\ mpc[r] = "infer"
    /\ mpc' = [mpc EXCEPT ![r] = "failed"]
    /\ UNCHANGED <<mscript, mresp, mq, mpos, mcs, mout>>
    /\ UNCHANGED notMulti

MPutShared(r) ==
    /\ mpc[r] \in {"put", "putend"}
    /\ CanPut(mq[1])
    /\ LET units == StreamUnitsOf[mscript[r]]
           item == Item(r, IF mpc[r] = "putend" THEN EndMarker ELSE units[mpos[r]])
       IN  mq' = [mq EXCEPT ![1] = Append(mq[1], item)]
    /\ mpc' = [mpc EXCEPT ![r] = IF mpc[r] = "putend" THEN "done" ELSE "next"]
    /\ mpos' = [mpos EXCEPT ![r] = IF mpc[r] = "putend" THEN mpos[r] ELSE mpos[r] + 1]
    /\ UNCHANGED <<mscript, mresp, mcs, mout>>
    /\ UNCHANGED notMulti

\* "await q.put(...)" of the request's producer, q being the queue of its call
MPut(r) ==
    /\ mpc[r] \in {"put", "putend"}
    /\ CanPut(mq[r])
    /\ LET units == StreamUnitsOf[mscript[r]]
           item == Item(r, IF mpc[r] = "putend" THEN EndMarker ELSE units[mpos[r]])
       IN  mq' = [mq EXCEPT ![r] = Append(mq[r], item)]
    /\ mpc' = [mpc EXCEPT ![r] = IF mpc[r] = "putend" THEN "done" ELSE "next"]
    /\ mpos' = [mpos EXCEPT ![r] = IF mpc[r] = "putend" THEN mpos[r] ELSE mpos[r] + 1]
    /\ UNCHANGED <<mscript, mresp, mcs, mout>>
    /\ UNCHANGED notMulti

\* "samples = await q.get()" of the request's stream_generator
MGet(r) ==
    /\ mcs[r] = "reading"
    /\ mq[r] # <<>>
    /\ mq' = [mq EXCEPT ![r] = Tail(mq[r])]
    /\ IF Head(mq[r]).unit.kind = "end"
       THEN /\ mcs' = [mcs EXCEPT ![r] = "done"]
            /\ UNCHANGED mout
       ELSE /\ mout' = [mout EXCEPT ![r] = Append(mout[r], Chunk(Head(mq[r])))]
            /\ UNCHANGED mcs
    /\ UNCHANGED <<mscript, mresp, mpc, mpos>>
    /\ UNCHANGED notMulti

\* the request's client goes away
MDisconnect(r) ==
    /\ mcs[r] \in {"init", "reading"}
    /\ mcs' = [mcs EXCEPT ![r] = "gone"]
    /\ UNCHANGED <<mscript, mresp, mq, mpc, mpos, mout>>
    /\ UNCHANGED notMulti

MStartStep == \E r \in Requests : MStart(r)
MConsumerStartStep == \E r \in Requests : MConsumerStart(r)
MProducerNextStep == \E r \in Requests : MProducerNext(r)
MInferOkStep == \E r \in Requests : MInferOk(r)
MInferFailStep == \E r \in Requests : MInferFail(r)
MPutStep == \E r \in Requests : MPut(r)
MGetStep == \E r \in Requests : MGet(r)
MDisconnectStep == \E r \in Requests : MDisconnect(r)

\* the requests have been sent and none has been looked at
MultiInit ==
    /\ ReqIdle
    /\ RegIdle
    /\ BenchIdle
    /\ StartIdle
    /\ mscript \in [Requests -> MultiScripts]
    /\ mresp = [r \in Requests |-> "none"]
    /\ mq = [r \in Requests |-> <<>>]
    /\ mpc = [r \in Requests |-> "idle"]
    /\ mpos = [r \in Requests |-> 0]
    /\ mcs = [r \in Requests |-> "idle"]
    /\ mout = [r \in Requests |-> <<>>]
    /\ SegIdle
    /\ ClientIdle

MultiNext ==
    \/ MStartStep
    \/ MConsumerStartStep
    \/ MProducerNextStep
    \/ MInferOkStep
    \/ MInferFailStep
    \/ MPutStep
    \/ MGetStep
    \/ MDisconnectStep

MultiSpec == MultiInit /\ [][MultiNext]_vars

\* the chunks a request's stream delivers when nothing goes wrong
ExpectedChunks(r) ==
    [k \in 1..Len(StreamUnits(mscript[r])) |-> Chunk(Item(r, StreamUnits(mscript[r])[k]))]

\* s is the beginning of t
IsPrefix(s, t) == Len(s) <= Len(t) /\ \A k \in 1..Len(s) : s[k] = t[k]

\* C22: every item in a request's queue and every chunk on its stream was
\* made for that request, and the chunks delivered are the beginning of that
\* request's own units in order; a step in which a backend call of one request
\* fails or its client disconnects leaves the queue, the producer, the
\* generator and the delivered chunks of every other request, and the loaded
\* backend, as they were.
C22_RequestsAreIsolated ==
    /\ [](\A r \in Requests :
              /\ \A k \in 1..Len(mq[r]) : mq[r][k].req = r
              /\ \A k \in 1..Len(mout[r]) : mout[r][k].req = r
              /\ IsPrefix(mout[r], ExpectedChunks(r)))
    /\ [][\A r \in Requests :
              (\/ mpc[r] # "failed" /\ mpc'[r] = "failed"
               \/ mcs[r] # "gone" /\ mcs'[r] = "gone") =>
                 /\ \A s \in Requests \ {r} :
                       /\ mq'[s] = mq[s] /\ mout'[s] = mout[s]
                       /\ mpc'[s] = mpc[s] /\ mcs'[s] = mcs[s]
                 /\ activeSet' = activeSet /\ resident' = resident]_vars

\* one request lost its producer to a failed call and the other one was
\* disconnected after its first chunk, while the first still got its silence
C22_Witness ==
    /\ mpc[1] = "failed"
    /\ mcs[2] = "gone"
    /\ Len(mout[1]) = 1
    /\ Len(mout[2]) = 1
    /\ mscript[1] # mscript[2]

\* C23: the memory delta recorded for a candidate is the reading after its
\* inference minus the reading taken just before that candidate was loaded.
C23_DeltaFromOwnBaseline ==
    \A k \in 1..Len(mem_rows) :
       mem_rows[k].mem_usage = mem_rows[k].after_infer - mem_rows[k].before_load

\* C24: the batch loop goes past a line it called the backend for, and an
\* audio body is returned, only when that call gave its samples; once a call
\* has failed, the response is 500 with the error text and no body, the failed
\* line got exactly one call and no later line got any, and from then on no
\* call is issued, nothing is added to the audio and the response stays.
C24_BatchFailureIs500 ==
    /\ [](endpoint = "wav" =>
             \A k \in 1..Len(calls) :
                (calls[k].line < lineIdx \/ response \in {"wav", "empty"}) =>
                   \E u \in UnitsOf(all_samples, calls[k].line) :
                      all_samples[u].kind = "content")
    /\ []((endpoint = "wav" /\ bstate = "failed") =>
             /\ response = "500"
             /\ detail # None
             /\ wav_body = <<>>
             /\ Cardinality(CallsOf(lineIdx)) = 1
             /\ calls[Len(calls)].line = lineIdx
             /\ \A i \in (lineIdx + 1)..Len(script) : CallsOf(i) = {})
    /\ []((endpoint = "wav" /\ response = "500") => bstate = "failed")
    /\ [][(endpoint = "wav" /\ bstate = "failed") =>
             /\ calls' = calls
             /\ all_samples' = all_samples
             /\ response' = response
             /\ wav_body' = wav_body
             /\ bstate' = bstate]_vars

\* the call of the second of three lines failed after the first line's audio
\* was there, and the third line would have been synthesized
C24_Witness ==
    /\ endpoint = "wav"
    /\ bstate = "failed"
    /\ response = "500"
    /\ Len(script) = 3
    /\ lineIdx = 2
    /\ all_samples # <<>>
    /\ BatchCallLine(3)

(***************************************************************************)
(* The segmenter of the streaming path, applied to any text.               *)
(***************************************************************************)

\* the longest text that is segmented
MaxTextLen == 5

\* the longest response body the playback loop is followed over, in bytes
MaxStreamBytes == 9

\* the longest chunk iter_content hands over (chunk_size, 8192 in the source)
MaxChunkLen == 5

\* the characters of the texts: a letter, a space and two terminators
TextChars == {"a", " ", ".", "?"}

\* re.split(...) and the list comprehension after it
Segment ==
    /\ ssegs = None
    /\ ssegs' = Some(Sentences(stext))
    /\ UNCHANGED stext
    /\ UNCHANGED notSeg

\* any text of up to MaxTextLen characters is about to be segmented
SegInit ==
    /\ ReqIdle
    /\ RegIdle
    /\ BenchIdle
    /\ StartIdle
    /\ MultiIdle
    /\ ClientIdle
    /\ stext \in SeqsUpTo(TextChars, MaxTextLen)
    /\ ssegs = None

SegNext == Segment

SegSpec == SegInit /\ [][SegNext]_vars

\* the characters of a text that are not whitespace, in order
Inked(s) == SelectSeq(s, LAMBDA c : c # " ")

\* the segments one after another
Flatten(segs) ==
    LET RECURSIVE F(_)
        F(k) == IF k = 0 THEN <<>> ELSE F(k - 1) \o segs[k]
    IN  F(Len(segs))

\* C25: the segments of a text are non-empty, begin and end with a character
\* that is not whitespace, and all but the last end with a terminator; their
\* non-whitespace characters, taken in order, are exactly those of the text;
\* a text with ink and no terminator gives one segment, a text without ink
\* gives none.
C25_SegmenterContract ==
    (ssegs # None) =>
       LET segs == ssegs[1] IN
       /\ \A k \in 1..Len(segs) :
             /\ segs[k] # <<>>
             /\ segs[k][1] # " "
             /\ segs[k][Len(segs[k])] # " "
             /\ k < Len(segs) => segs[k][Len(segs[k])] \in {".", "?", "!"}
       /\ Inked(Flatten(segs)) = Inked(stext)
       /\ (Inked(stext) # <<>> /\ \A i \in 1..Len(stext) : stext[i] \notin {".", "?", "!"})
             => Len(segs) = 1
       /\ Inked(stext) = <<>> => segs = <<>>

\* a text with a space before a terminator, a space after it, and no
\* terminator at its end
C25_Witness ==
    /\ stext = <<"a", " ", ".", " ", "a">>
    /\ ssegs = Some(<< <<"a", " ", ".">>, <<"a">> >>)

\* C26: the service is never loaded from, and never ready on, a file that a
\* failed or incomplete download left on disk.
C26_LeftoverFileNeverLoaded ==
    ~(sloaded /\ tainted # {})

(***************************************************************************)
(* The two synthesis paths side by side.                                   *)
(***************************************************************************)

\* what generate_full_audio appends for line i: nothing for a line that does
\* not resolve, else the silence of its delay, then the one array of its text
LineBatchUnits(i, line) ==
    IF Resolve(line).kind = "none"
    THEN <<>>
    ELSE (IF HasDelay(line) THEN <<SilenceUnit(i, line)>> ELSE <<>>)
            \o (IF Phonemize(line.text) # <<>>
                THEN <<ContentUnit(i, 0, Phonemize(line.text), line.speed)>>
                ELSE <<>>)

\* the list generate_full_audio concatenates for a script
BatchUnits(lines) ==
    LET RECURSIVE F(_)
        F(i) == IF i = 0 THEN <<>> ELSE F(i - 1) \o LineBatchUnits(i, lines[i])
    IN  F(Len(lines))

\* a unit as a line-level decision: its line, silence or content, and the
\* length of a silence
Decision(unit) ==
    [line |-> unit.line, kind |-> unit.kind,
     nsamples |-> IF unit.kind = "silence" THEN unit.nsamples ELSE 0]

\* the line-level decisions of a list of units: the content units of one
\* line count once
LineLevel(units) ==
    LET first == { k \in 1..Len(units) :
                      k = 1 \/ Decision(units[k]) # Decision(units[k - 1]) }
        nth(j) == CHOOSE k \in first : Cardinality({ m \in first : m < k }) = j - 1
    IN  [j \in 1..Cardinality(first) |-> Decision(units[nth(j)])]

\* C27: what the streaming producer puts is the beginning of the stream
\* units of the script, what the batch loop appends is the beginning of the
\* batch units of the script, every call of either path carries the target
\* the line resolves to, and the two unit lists are the same line by line:
\* the same lines have units, the same silences at the same place, content
\* for the same lines; only the number of content units of a line differs.
C27_PathsAgreeLineByLine ==
    /\ endpoint = "stream" => IsPrefix(enqueued, StreamUnits(script) \o <<EndMarker>>)
    /\ endpoint = "wav" => IsPrefix(all_samples, BatchUnits(script))
    /\ \A k \in 1..Len(calls) : calls[k].voice = Resolve(script[calls[k].line])
    /\ pstate = "done" => Len(enqueued) = Len(StreamUnits(script)) + 1
    /\ bstate = "done" => Len(all_samples) = Len(BatchUnits(script))
    /\ LineLevel(StreamUnits(script)) = LineLevel(BatchUnits(script))
    /\ \A i \in 1..Len(script) :
          Len(LineBatchUnits(i, script[i])) <= Len(LineStreamUnits(i, script[i]))

\* a streaming request of three lines is through: one line was skipped, one
\* has a delay, one has two sentences, so that the stream has more units than
\* the batch list while their line-level decisions are the same
C27_Witness ==
    /\ endpoint = "stream"
    /\ pstate = "done"
    /\ Len(script) = 3
    /\ Resolve(script[1]).kind = "none" /\ HasDelay(script[1])
    /\ HasDelay(script[2])
    /\ Len(Sentences(script[3].text)) = 2
    /\ Len(StreamUnits(script)) = 4
    /\ Len(BatchUnits(script)) = 3

(***************************************************************************)
(* The streaming playback loop of the client.                              *)
(***************************************************************************)

\* the values of a byte
ByteValues == {0, 1}

\* the chunks iter_content can hand over: any bytes, up to chunk_size of them
Chunks == UNION { [1..n -> ByteValues] : n \in 0..MaxChunkLen }

\* the buffer is not cleared after the write
ClientChunkKeepsBuffer(chunk) ==
    /\ cend = "open"
    /\ Len(crecv) + Len(chunk) <= MaxStreamBytes
    /\ crecv' = crecv \o chunk
    /\ IF chunk = <<>>
       THEN UNCHANGED <<cbuf, cwrites>>
       ELSE LET buffer == cbuf \o chunk IN
            IF Len(buffer) % 4 = 0
            THEN /\ cwrites' = Append(cwrites, buffer)
                 /\ cbuf' = buffer
            ELSE /\ cbuf' = buffer
                 /\ UNCHANGED cwrites
    /\ UNCHANGED cend
    /\ UNCHANGED notClient

\* one turn of the loop over iter_content: an empty chunk is passed over; a
\* chunk extends the buffer, and a buffer of whole float32 samples is written
\* to the device and replaced by an empty one
ClientChunk(chunk) ==
    /\ cend = "open"
    /\ Len(crecv) + Len(chunk) <= MaxStreamBytes
    /\ crecv' = crecv \o chunk
    /\ IF chunk = <<>>
       THEN UNCHANGED <<cbuf, cwrites>>
       ELSE LET buffer == cbuf \o chunk IN
            IF Len(buffer) % 4 = 0
            THEN /\ cwrites' = Append(cwrites, buffer)
                 /\ cbuf' = <<>>
            ELSE /\ cbuf' = buffer
                 /\ UNCHANGED cwrites
    /\ UNCHANGED cend
    /\ UNCHANGED notClient

\* the body is exhausted: the loop and both with-blocks are left
ClientEnd ==
    /\ cend = "open"
    /\ cend' = "ended"
    /\ UNCHANGED <<crecv, cbuf, cwrites>>
    /\ UNCHANGED notClient

\* the connection breaks while the body is read: iter_content raises and the
\* handler of RequestException prints the error
ClientError ==
    /\ cend = "open"
    /\ cend' = "error"
    /\ UNCHANGED <<crecv, cbuf, cwrites>>
    /\ UNCHANGED notClient

ClientChunkStep == \E chunk \in Chunks : ClientChunk(chunk)

ClientInit ==
    /\ ReqIdle
    /\ RegIdle
    /\ BenchIdle
    /\ StartIdle
    /\ MultiIdle
    /\ SegIdle
    /\ ClientIdle

ClientNext ==
    \/ ClientChunkStep
    \/ ClientEnd
    \/ ClientError

ClientSpec == ClientInit /\ [][ClientNext]_vars

\* C28: the arrays written to the device, one after the other and followed by
\* the buffer, are the bytes received: what was written is a beginning of
\* what was received, in order, nothing left out and nothing twice.  Every
\* array written is a positive whole number of float32 samples, the buffer is
\* never a whole number of samples unless it is empty, and when the body
\* ends with a multiple of 4 bytes received all of them have been written.
C28_PlaybackWritesWholeSamplesInOrder ==
    /\ Flatten(cwrites) \o cbuf = crecv
    /\ IsPrefix(Flatten(cwrites), crecv)
    /\ \A k \in 1..Len(cwrites) : Len(cwrites[k]) > 0 /\ Len(cwrites[k]) % 4 = 0
    /\ Len(cbuf) % 4 = 0 => cbuf = <<>>
    /\ (cend = "ended" /\ Len(crecv) % 4 = 0) => Flatten(cwrites) = crecv

\* a body of 8 bytes came in chunks that do not end on sample borders, was
\* written in two arrays, and has ended
C28_Witness ==
    /\ cend = "ended"
    /\ Len(crecv) = 8
    /\ Len(cwrites) = 2
    /\ 0 \in { crecv[k] : k \in 1..8 } /\ 1 \in { crecv[k] : k \in 1..8 }

====
